---- MODULE Spec2Model ----
(***************************************************************************)
(* A model of the Puter AI client (src/puter/ai.py): one PuterAI session,  *)
(* the process-wide configuration it reads, and the chat / login calls     *)
(* that run against it, synchronously (threads) or asynchronously (tasks). *)
(***************************************************************************)
EXTENDS Integers, Sequences, FiniteSets, TLC

(***************************************************************************)
(* Bounds of the model.                                                    *)
(***************************************************************************)
\* Largest value config.max_retries takes.
MaxRetries == 2
\* A chat call starts only while the transcript holds fewer than 2 * MaxChats entries.
MaxChats == 2

\* The calls that may be in progress at once (threads or tasks on one session).
Calls == {1, 2, 3}

RetryDelays == {1, 2}
BackoffFactors == {2, 3}
RateLimits == {1}
Periods == {1}

(***************************************************************************)
(* JSON-like values.  A body is a set of nodes, one per value in the tree: *)
(* p is the path of keys from the root (list indices as "0", "1", ...), ty *)
(* the Python type of the value and v its text (for str and num nodes).    *)
(***************************************************************************)
Idx == <<"0", "1", "2">>

N(p, ty, v) == [p |-> p, ty |-> ty, v |-> v]

Has(b, p) == \E n \in b : n.p = p

Node(b, p) == CHOOSE n \in b : n.p = p

TypeAt(b, p) == IF Has(b, p) THEN Node(b, p).ty ELSE "absent"

\* isinstance(x, dict) and key in x, for the value x at path p
HasKey(b, p, key) == TypeAt(b, p) = "dict" /\ Has(b, Append(p, key))

\* len(x) of the list at path p
ListLen(b, p) == Cardinality({n \in b : Len(n.p) = Len(p) + 1 /\ SubSeq(n.p, 1, Len(p)) = p})

\* str.strip() leaves nothing of these strings
BlankStrings == {"", " ", " \n"}

\* Python truthiness of the value at path p (a dict or list is truthy iff it
\* has a child)
Truthy(b, p) ==
    LET ty == TypeAt(b, p) IN
    CASE ty = "str" -> Node(b, p).v # ""
      [] ty = "num" -> Node(b, p).v # "0"
      [] ty = "bool" -> Node(b, p).v = "true"
      [] ty = "dict" -> ListLen(b, p) > 0
      [] ty = "list" -> ListLen(b, p) > 0
      [] OTHER -> FALSE

(***************************************************************************)
(* extract_content (ai.py 477-541, and its copy 638-695).  The result is   *)
(* r = "none" (returned None), "raise" (an exception escaped), or "value"  *)
(* with the type, text and truthiness of the returned object.              *)
(***************************************************************************)
XNone == [r |-> "none", ty |-> "null", v |-> "", truthy |-> FALSE]

XRaise == [r |-> "raise", ty |-> "null", v |-> "", truthy |-> FALSE]

XStr(s) == [r |-> "value", ty |-> "str", v |-> s, truthy |-> s # ""]

\* return <the object at path p>, whatever its type
XRaw(b, p) ==
    [r |-> "value", ty |-> TypeAt(b, p),
     v |-> IF TypeAt(b, p) \in {"str", "num", "bool"} THEN Node(b, p).v ELSE "",
     truthy |-> Truthy(b, p)]

\* JoinText without the test of the type: the text of every item is joined
RECURSIVE JoinEveryText(_, _, _, _)
JoinEveryText(b, p, i, n) ==
    IF i > n THEN XStr("")
    ELSE LET q == Append(p, Idx[i])
             rest == JoinEveryText(b, p, i + 1, n)
         IN  IF TypeAt(b, q) # "dict" THEN XRaise
             ELSE IF ~Has(b, Append(q, "text")) THEN rest
             ELSE IF TypeAt(b, Append(q, "text")) # "str" THEN XRaise
             ELSE IF rest.r = "raise" THEN XRaise
             ELSE XStr(Node(b, Append(q, "text")).v \o rest.v)

\* "".join([item.get("text", "") for item in content if item.get("type") == "text"])
RECURSIVE JoinText(_, _, _, _)
JoinText(b, p, i, n) ==
    IF i > n THEN XStr("")
    ELSE LET q == Append(p, Idx[i])
             rest == JoinText(b, p, i + 1, n)
         IN  IF TypeAt(b, q) # "dict" THEN XRaise                \* item.get on a non-dict
             ELSE IF ~(TypeAt(b, Append(q, "type")) = "str" /\ Node(b, Append(q, "type")).v = "text")
                  THEN rest
             ELSE IF ~Has(b, Append(q, "text"))
                  THEN rest
             ELSE IF TypeAt(b, Append(q, "text")) # "str" THEN XRaise   \* join of a non-str
             ELSE IF rest.r = "raise" THEN XRaise
             ELSE XStr(Node(b, Append(q, "text")).v \o rest.v)

\* ContentOf with the str branch left out
ContentOfListOnly(b, p) ==
    CASE TypeAt(b, p) = "list" -> JoinText(b, p, 1, ListLen(b, p))
      [] OTHER -> [r |-> "fall", ty |-> "null", v |-> "", truthy |-> FALSE]

\* the list / str handling shared by cases 1 and 2; "fall" = no return taken
ContentOf(b, p) ==
    CASE TypeAt(b, p) = "list" -> JoinText(b, p, 1, ListLen(b, p))
      [] TypeAt(b, p) = "str" -> XStr(Node(b, p).v)
      [] OTHER -> [r |-> "fall", ty |-> "null", v |-> "", truthy |-> FALSE]

extract_content(b) ==
    LET R == <<"result">>
        c1 == IF HasKey(b, R, "message") /\ HasKey(b, <<"result", "message">>, "content")
              THEN ContentOf(b, <<"result", "message", "content">>)
              ELSE [r |-> "fall", ty |-> "null", v |-> "", truthy |-> FALSE]
        c2 == IF HasKey(b, R, "content")
              THEN ContentOf(b, <<"result", "content">>)
              ELSE [r |-> "fall", ty |-> "null", v |-> "", truthy |-> FALSE]
        C0 == <<"result", "choices", "0">>
    IN  IF HasKey(b, <<>>, "result") /\ c1.r # "fall" THEN c1
        ELSE IF HasKey(b, <<>>, "result") /\ c2.r # "fall" THEN c2
        ELSE IF HasKey(b, <<>>, "result") /\ TypeAt(b, R) = "str" THEN XStr(Node(b, R).v)
        ELSE IF /\ HasKey(b, <<>>, "result")
                /\ HasKey(b, R, "choices")
                /\ TypeAt(b, <<"result", "choices">>) = "list"
                /\ ListLen(b, <<"result", "choices">>) > 0
                /\ HasKey(b, C0, "message")
                /\ HasKey(b, Append(C0, "message"), "content")
             THEN XRaw(b, C0 \o <<"message", "content">>)
        ELSE IF HasKey(b, <<>>, "result") /\ HasKey(b, R, "text") THEN XRaw(b, <<"result", "text">>)
        ELSE IF HasKey(b, <<>>, "content") /\ TypeAt(b, <<"content">>) = "str"
             THEN XStr(Node(b, <<"content">>).v)
        ELSE IF HasKey(b, <<>>, "text") THEN XRaw(b, <<"text">>)
        ELSE XNone

\* Classify without the .strip(): `if content:`
ClassifyNoStrip(x) ==
    CASE x.r = "raise" -> "raise"
      [] x.r = "none" -> "miss"
      [] ~x.truthy -> "miss"
      [] x.ty # "str" -> "raise"
      [] OTHER -> "text"

\* `content and content.strip()` (ai.py 545, 699): "text" when it is truthy,
\* "miss" when it is falsy, "raise" when .strip() is called on a non-str.
Classify(x) ==
    CASE x.r = "raise" -> "raise"
      [] x.r = "none" -> "miss"
      [] ~x.truthy -> "miss"
      [] x.ty # "str" -> "raise"
      [] x.v \in BlankStrings -> "miss"
      [] OTHER -> "text"

(***************************************************************************)
(* Message content.  A content is a bare string (kind "str") or a list of  *)
(* parts (kind "list"); a part is a dict with a type and a text or a url.  *)
(* ref tells whose object the dict is: "own" for one the session built,    *)
(* "caller" for one the caller passed in and still holds.                  *)
(***************************************************************************)
TextPart(s) == [type |-> "text", text |-> s, url |-> "", ref |-> "own"]

ImagePart(u) == [type |-> "image_url", text |-> "", url |-> u, ref |-> "own"]

\* the same dict as an object of the caller's
Given(part) == [part EXCEPT !.ref = "caller"]

\* copy.deepcopy(part): an equal dict that is the session's own
deepcopy(part) == [part EXCEPT !.ref = "own"]

StrContent(s) == [kind |-> "str", text |-> s, parts |-> <<>>]

ListContent(ps) == [kind |-> "list", text |-> "", parts |-> ps]

\* raised instead of a content: ValueError
Invalid == [kind |-> "ValueError", text |-> "", parts |-> <<>>]

Msg(role, content) == [role |-> role, content |-> content]

\* copy.deepcopy(message): the parts of its content are copied with it
DeepCopyMsg(message) ==
    [message EXCEPT !.content.parts = [i \in DOMAIN @ |-> deepcopy(@[i])]]

(***************************************************************************)
(* Image inputs.  tuple = 0 for a bare source, else the length of the      *)
(* tuple passed (its first item is the source, its second the MIME type).  *)
(* A source is a string (path, URL or data URI; ty "str"), bytes ("bytes", *)
(* s the bytes), a file-like handle ("file", s its name), a pre-built dict *)
(* ("dict", the dict in the field part), or an object of an unsupported    *)
(* type ("other").  Bytes are written as text; "None" is None and          *)
(* "NotBytes" an object that is neither None nor bytes.                    *)
(***************************************************************************)
NoPart == [type |-> "", text |-> "", url |-> "", ref |-> "caller"]

Img(tuple, ty, s, mime) == [tuple |-> tuple, ty |-> ty, s |-> s, mime |-> mime, part |-> NoPart]

\* a pre-built dict passed as an image
DictImg(tuple, part, mime) ==
    [tuple |-> tuple, ty |-> "dict", s |-> "", mime |-> mime, part |-> part]

\* what source.read() returns for a handle, after raw.encode("utf-8") for a str
ReadOf(handle) ==
    CASE handle = "h_bytes" -> "abc"
      [] handle = "h_str" -> "a"
      [] handle = "h_empty" -> ""
      [] handle = "h_none" -> "None"
      [] OTHER -> "NotBytes"

\* getattr(source, "mimetype", None)
MimeOf(handle) == IF handle = "h_str" THEN "image/gif" ELSE "None"

DataURIs == {"data:image/gif;base64,R0lG"}

HttpURLs == {"https://x.test/a.png"}

\* the files that exist, with their bytes
FilePaths == {"cat.jpg", "blob"}

FileBytes(path) == "abc"

\* mimetypes.guess_type(path)[0]; "None" when the extension is unknown
GuessType(path) == IF path = "cat.jpg" THEN "image/jpeg" ELSE "None"

\* base64.b64encode(data).decode("utf-8")
B64(data) ==
    CASE data = "abc" -> "YWJj"
      [] data = "a" -> "YQ=="
      [] OTHER -> ""

\* x or y, on optional strings
Or(x, y) == IF x \in {"None", ""} THEN y ELSE x

_create_base64_image_url(data, mime_type, default_mime) ==
    IF data = "None" THEN Invalid
    ELSE IF data = "NotBytes" THEN Invalid
    ELSE ListContent(<<ImagePart("data:" \o Or(mime_type, default_mime) \o ";base64," \o B64(data))>>)

\* _handle_file_path with the type guessed from the extension put first
_handle_file_guess_first(path_str, explicit_mime, default_mime) ==
    IF path_str \notin FilePaths THEN Invalid
    ELSE _create_base64_image_url(FileBytes(path_str),
                                  Or(GuessType(path_str), Or(explicit_mime, default_mime)),
                                  default_mime)

_handle_file_path(path_str, explicit_mime, default_mime) ==
    IF path_str \notin FilePaths THEN Invalid
    ELSE _create_base64_image_url(FileBytes(path_str),
                                  Or(explicit_mime, Or(GuessType(path_str), default_mime)),
                                  default_mime)

\* _handle_path_like_image with an HTTP(S) URL taken for a path
_handle_path_like_no_urls(source, explicit_mime, default_mime) ==
    IF source \in DataURIs THEN ListContent(<<ImagePart(source)>>)
    ELSE _handle_file_path(source, explicit_mime, default_mime)

_handle_path_like_image(source, explicit_mime, default_mime) ==
    IF source \in DataURIs THEN ListContent(<<ImagePart(source)>>)
    ELSE IF source \in HttpURLs THEN ListContent(<<ImagePart(source)>>)
    ELSE _handle_file_path(source, explicit_mime, default_mime)

\* The part for one image, as a one-part list content, or Invalid.
_prepare_image_content(image) ==
    LET default_mime == "image/png"
        explicit_mime == IF image.tuple = 0 THEN "None" ELSE image.mime
    IN  IF image.tuple \notin {0, 2} THEN Invalid
        ELSE CASE image.ty = "dict" -> ListContent(<<deepcopy(image.part)>>)
               [] image.ty = "str" -> _handle_path_like_image(image.s, explicit_mime, default_mime)
               [] image.ty = "bytes" ->
                    _create_base64_image_url(image.s, Or(explicit_mime, default_mime), default_mime)
               [] image.ty = "file" ->
                    _create_base64_image_url(
                        ReadOf(image.s), Or(explicit_mime, Or(MimeOf(image.s), default_mime)),
                        default_mime)
               [] OTHER -> Invalid

RECURSIVE ImageParts(_)
ImageParts(images) ==
    IF images = <<>> THEN ListContent(<<>>)
    ELSE LET h == _prepare_image_content(Head(images))
             t == ImageParts(Tail(images))
         IN  IF h = Invalid \/ t = Invalid THEN Invalid
             ELSE ListContent(h.parts \o t.parts)

\* prompt = "None" and images = "None" stand for the arguments left out.
_build_content_parts(prompt, images) ==
    LET text == IF prompt \in {"None", ""} THEN <<>> ELSE <<TextPart(prompt)>>
        imgs == IF images = <<>> THEN ListContent(<<>>) ELSE ImageParts(images)
    IN  IF imgs = Invalid THEN Invalid
        ELSE IF text \o imgs.parts = <<>> THEN Invalid
        ELSE ListContent(text \o imgs.parts)

_optimize_content_parts(parts) ==
    IF Len(parts) = 1 /\ parts[1].type = "text" THEN StrContent(parts[1].text)
    ELSE ListContent(parts)

\* _handle_custom_content_parts with a lone text part collapsed to its text
_handle_custom_collapsed(content_parts) ==
    IF content_parts = <<>> THEN Invalid
    ELSE _optimize_content_parts([i \in DOMAIN content_parts |-> deepcopy(content_parts[i])])

\* _handle_custom_content_parts with the caller's dicts kept as they are
_handle_custom_shared(content_parts) ==
    IF content_parts = <<>> THEN Invalid ELSE ListContent(content_parts)

_handle_custom_content_parts(content_parts) ==
    IF content_parts = <<>> THEN Invalid
    ELSE ListContent([i \in DOMAIN content_parts |-> deepcopy(content_parts[i])])

\* has_parts tells content_parts from None; images = <<>> covers None and [].
_build_user_content(prompt, images, has_parts, content_parts) ==
    IF has_parts THEN _handle_custom_content_parts(content_parts)
    ELSE LET built == _build_content_parts(prompt, images)
         IN  IF built = Invalid THEN Invalid ELSE _optimize_content_parts(built.parts)


(***************************************************************************)
(* The session, the configuration and the calls.                           *)
(***************************************************************************)
VARIABLES
    config,         \* the process-wide configuration object (puter.config.config)
    token,          \* self._token; "None" when the session holds none
    creds,          \* whether self._username and self._password are both set
    current_model,  \* self.current_model
    chat_history,   \* self.chat_history
    throttler,      \* self._throttler: its rate_limit, period and the ages of its task log
    calls,          \* the chat / login calls in progress, by caller
    successes       \* history: the chats that returned a text since the transcript was last empty

vars == <<config, token, creds, current_model, chat_history, throttler, calls, successes>>

\* self.available_models, as loaded by __init__
available_models == [m \in {"claude-opus-4", "gpt-4"} |->
                        IF m = "claude-opus-4" THEN "claude" ELSE "openai-completion"]

\* _get_driver_for_model as a plain lookup: no driver for an unregistered name
_get_driver_registered(model_name) ==
    IF model_name \in DOMAIN available_models THEN available_models[model_name]
    ELSE "None"

_get_driver_for_model(model_name) ==
    IF model_name \in DOMAIN available_models THEN available_models[model_name]
    ELSE "openai-completion"

RECURSIVE Pow(_, _)
Pow(b, n) == IF n = 0 THEN 1 ELSE b * Pow(b, n - 1)

Terminal == {"returned", "raised", "cancelled"}

NoResult == [kind |-> "none", why |-> "", text |-> "", attempts |-> 0, cause |-> ""]

NoOutcome == [kind |-> "none", body |-> {}]

NoArgs ==
    [prompt |-> "None", model |-> "None", images |-> <<>>, has_parts |-> FALSE,
     content_parts |-> <<>>]

IdleCall ==
    [pc |-> "idle", op |-> "none", mode |-> "none",
     attempt |-> 0, rangeMax |-> 0, dispatched |-> 0,
     failures |-> 0, last_exception |-> "none", sleeps |-> <<>>,
     user_message |-> Msg("none", Invalid), messages |-> <<>>, model |-> "", driver |-> "",
     response |-> NoOutcome, content |-> "", result |-> NoResult,
     slots |-> 0,
     \* the time left of the backoff sleep the call is in
     wake_in |-> 0,
     \* history: the transcript, the token and the model when the call began,
     \* and what of the configuration was written since ("retries", "delay")
     before |-> <<>>, token0 |-> "None", model0 |-> "", disturbed |-> {},
     \* history: the arguments chat was called with, and whether the caller has
     \* since changed the dicts it passed
     args |-> NoArgs, mutated |-> FALSE,
     \* history: the transcript as the call found it when it committed, and
     \* the outcomes of its attempts in order (kept by CompleteSeen)
     prefix |-> <<>>, seen |-> <<>>,
     \* history: the time since the call passed the throttler (-1 before it
     \* has) and since each of its requests was sent
     gate_age |-> -1, sent |-> <<>>]

Active(c) == calls[c].pc \notin ({"idle"} \cup Terminal)

\* With solo, operations are issued one at a time: none starts before the
\* caller has the result of the call before it.
MayStart(solo) == solo => \A d \in Calls : calls[d].pc = "idle"

\* With solo, the caller takes the result at the instant the call ends: time
\* and the rest of the process move on only after it has.
Taken(solo) == solo => \A d \in Calls : calls[d].pc \notin Terminal

(***************************************************************************)
(* What the network answers to one attempt.                                *)
(***************************************************************************)
Root == N(<<>>, "dict", "")

BodyHello ==
    {Root, N(<<"result">>, "dict", ""), N(<<"result", "message">>, "dict", ""),
     N(<<"result", "message", "content">>, "str", "hello")}

BodyEmpty ==
    {Root, N(<<"result">>, "dict", ""), N(<<"result", "message">>, "dict", ""),
     N(<<"result", "message", "content">>, "str", "")}

BodyBlank == {Root, N(<<"result">>, "dict", ""), N(<<"result", "content">>, "str", " \n")}

BodyNoMatch == {Root, N(<<"success">>, "bool", "true")}

BodyNumber == {Root, N(<<"text">>, "num", "5")}

ChatBodies == {BodyHello, BodyEmpty, BodyBlank, BodyNoMatch, BodyNumber}

\* The gateway answers proceed: true with a token string, or refuses; the code
\* checks nothing about "token", which may also be missing or null.
ResponseTokens == {"t1"}

BodyProceed(t) == {Root, N(<<"proceed">>, "bool", "true"), N(<<"token">>, "str", t)}

BodyNoToken == {Root, N(<<"proceed">>, "bool", "true")}

BodyNullToken == {Root, N(<<"proceed">>, "bool", "true"), N(<<"token">>, "null", "")}

BodyRefused == {Root, N(<<"proceed">>, "bool", "false")}

BodyError == {Root, N(<<"error">>, "str", "bad")}

LoginBodies ==
    {BodyProceed(t) : t \in ResponseTokens}
        \cup {BodyNoToken, BodyNullToken, BodyRefused, BodyError}

BodyListOfStr ==
    {Root, N(<<"result">>, "dict", ""), N(<<"result", "content">>, "list", ""),
     N(<<"result", "content", "0">>, "str", "x")}

\* The places extract_content looks at, in the order it looks (cases 1 to 7),
\* and a text to tell each place by.
PatternPaths ==
    << <<"result", "message", "content">>, <<"result", "content">>, <<"result">>,
       <<"result", "choices", "0", "message", "content">>, <<"result", "text">>,
       <<"content">>, <<"text">> >>

PatternWords == <<"p1", "p2", "p3", "p4", "p5", "p6", "p7">>

\* The containers above the place at path: dicts, and the list "choices".
Above(path) ==
    {N(SubSeq(path, 1, i), IF path[i] = "choices" THEN "list" ELSE "dict", "") :
        i \in 1 .. Len(path) - 1}

\* The body holding, at each place k of ks, the string f[k] ("absent": no
\* such key).
BodyWith(ks, f) ==
    {Root} \cup UNION {IF f[k] = "absent" THEN {}
                       ELSE Above(PatternPaths[k]) \cup {N(PatternPaths[k], "str", f[k])} :
                       k \in ks}

SlotValues(k) == {"absent", "", " ", PatternWords[k]}

Slots(ks) == {f \in [ks -> {"absent", "", " "} \cup {PatternWords[k] : k \in ks}] :
                 \A k \in ks : f[k] \in SlotValues(k)}

\* Every body with a string or nothing at each place: result is a dict (or
\* missing) in the first family and a string in the second.
NormBodies ==
    {BodyWith({1, 2, 4, 5, 6, 7}, f) : f \in Slots({1, 2, 4, 5, 6, 7})}
    \cup {BodyWith({3, 6, 7}, f) : f \in {g \in Slots({3, 6, 7}) : g[3] # "absent"}}
    \cup {BodyNumber, BodyListOfStr}

FailureKinds == {"network", "status", "timeout"}

Outcomes(op, chat_bodies, login_bodies) ==
    {[kind |-> k, body |-> {}] : k \in FailureKinds \cup {"badjson"}}
    \cup {[kind |-> "ok", body |-> b] : b \in (IF op = "chat" THEN chat_bodies ELSE login_bodies)}

\* Succeeds with an answer that refuses the login counted as a failed attempt
SucceedsAccepted(mode, o) ==
    /\ IF mode = "sync" THEN o.kind \in {"ok", "badjson"} ELSE o.kind = "ok"
    /\ o.kind = "ok" => Truthy(o.body, <<"proceed">>)

\* Whether an attempt returns from the retry loop.  request_func returns and
\* raise_for_status passes on any 2xx answer (ai.py 97-99); the async loop
\* also parses the body inside the try (ai.py 139-141).
Succeeds(mode, o) ==
    IF mode = "sync" THEN o.kind \in {"ok", "badjson"} ELSE o.kind = "ok"

(***************************************************************************)
(* The retry loop (_retry_request, _async_retry_request).                  *)
(***************************************************************************)
\* EnterLoop with the loop written range(config.max_retries)
EnterLoopShort(r) ==
    IF config.max_retries = 0
    THEN [r EXCEPT !.pc = "raised",
                   !.result = [NoResult EXCEPT
                       !.kind = IF r.op = "chat" THEN "PuterAPIError" ELSE "PuterAuthError",
                       !.why = "exhausted", !.attempts = config.max_retries + 1]]
    ELSE [r EXCEPT !.pc = "inflight", !.attempt = 0, !.rangeMax = config.max_retries - 1,
                   !.dispatched = 1, !.sent = <<0>>]

\* for attempt in range(config.max_retries + 1): the first request is sent
EnterLoop(r) ==
    [r EXCEPT !.pc = "inflight", !.attempt = 0, !.rangeMax = config.max_retries,
              !.dispatched = 1, !.sent = <<0>>]

\* raise PuterAPIError("... failed after {config.max_retries + 1} attempts: {last_exception}"),
\* which chat re-raises as PuterAPIError and login as PuterAuthError
\* Exhausted with the loop begun again instead of the error raised
ExhaustedStartsOver(r, last) ==
    [r EXCEPT !.pc = "inflight", !.attempt = 0, !.dispatched = 1, !.failures = 0,
              !.sleeps = <<>>, !.last_exception = last]

Exhausted(r, last) ==
    [r EXCEPT !.pc = "raised", !.last_exception = last,
              !.result = [kind |-> IF r.op = "chat" THEN "PuterAPIError" ELSE "PuterAuthError",
                          why |-> "exhausted", text |-> "",
                          attempts |-> config.max_retries + 1, cause |-> last]]

\* Delay with the exponent counted from one
DelayFromOne(attempt) == config.retry_delay * Pow(config.backoff_factor, attempt + 1)

\* delay = config.retry_delay * (config.backoff_factor ** attempt)
Delay(attempt) == config.retry_delay * Pow(config.backoff_factor, attempt)

\* OnFailure with a timeout escalated at once instead of retried
OnFailureTimeoutFatal(r, kind) ==
    IF kind # "timeout" /\ r.attempt < config.max_retries
    THEN [r EXCEPT !.pc = "sleeping", !.last_exception = kind,
                   !.sleeps = Append(@, Delay(r.attempt)), !.wake_in = Delay(r.attempt)]
    ELSE Exhausted(r, kind)

\* except Exception as e: ... if attempt < config.max_retries: sleep, continue; break
OnFailure(r, kind) ==
    IF r.attempt < config.max_retries
    THEN [r EXCEPT !.pc = "sleeping", !.last_exception = kind,
                   !.sleeps = Append(@, Delay(r.attempt)), !.wake_in = Delay(r.attempt)]
    ELSE Exhausted(r, kind)

\* the next iteration of the for loop, after the sleep
NextAttempt(r) ==
    IF r.attempt + 1 <= r.rangeMax
    THEN [r EXCEPT !.pc = "inflight", !.attempt = @ + 1, !.dispatched = @ + 1,
                   !.sent = Append(@, 0), !.wake_in = 0]
    ELSE Exhausted([r EXCEPT !.wake_in = 0], r.last_exception)

(***************************************************************************)
(* The throttler (asyncio_throttle.Throttler): flush drops the log entries *)
(* older than period, acquire passes while the log holds fewer than        *)
(* rate_limit entries and then logs the present time.                      *)
(***************************************************************************)
RECURSIVE Flush(_, _)
Flush(logs, period) ==
    IF logs # <<>> /\ Head(logs) > period THEN Flush(Tail(logs), period) ELSE logs

SlotFree == Len(Flush(throttler.task_logs, throttler.period)) < throttler.rate_limit

Acquired == [throttler EXCEPT !.task_logs = Append(Flush(@, throttler.period), 0)]

\* Enter with the async call let through whatever the throttler's log holds
EnterUngated(r) ==
    IF r.mode = "sync" THEN EnterLoop(r)
    ELSE [EnterLoop(r) EXCEPT !.slots = @ + 1, !.gate_age = 0]

\* Enter with the async call failed when the throttler has no slot free
EnterOrFail(r) ==
    IF r.mode = "sync" THEN EnterLoop(r)
    ELSE IF SlotFree THEN [EnterLoop(r) EXCEPT !.slots = @ + 1, !.gate_age = 0]
    ELSE [r EXCEPT !.pc = "raised",
                   !.result = [NoResult EXCEPT
                       !.kind = IF r.op = "chat" THEN "PuterAPIError" ELSE "PuterAuthError",
                       !.why = "ratelimit"]]

\* Enter with the sync call sent through the throttler as well
EnterGated(r) ==
    IF SlotFree THEN [EnterLoop(r) EXCEPT !.slots = @ + 1, !.gate_age = 0]
    ELSE [r EXCEPT !.pc = "acquire"]

\* async with self._throttler: ... self._async_retry_request(...); a sync call
\* enters the retry loop at once.
Enter(r) ==
    IF r.mode = "sync" THEN EnterLoop(r)
    ELSE IF SlotFree THEN [EnterLoop(r) EXCEPT !.slots = @ + 1, !.gate_age = 0]
    ELSE [r EXCEPT !.pc = "acquire"]

ThrottlerAfter(r) ==
    IF r.mode = "async" /\ SlotFree THEN Acquired ELSE throttler

(***************************************************************************)
(* The session as PuterAI.__init__ leaves it, for a configuration among    *)
(* cfgs, a token argument among tokens and credentials given or not.       *)
(***************************************************************************)
InitWith(cfgs, tokens, credentials, limits, periods) ==
    /\ config \in cfgs
    /\ token \in tokens
    /\ creds \in credentials
    /\ current_model = "claude-opus-4"
    /\ chat_history = <<>>
    /\ throttler \in [rate_limit : limits, period : periods, task_logs : {<<>>}]
    /\ calls = [c \in Calls |-> IdleCall]
    /\ successes = 0

(***************************************************************************)
(* chat and async_chat.                                                    *)
(***************************************************************************)
\* RaiseInvalid with the ValueError caught and raised again as PuterAPIError
RaiseInvalidWrapped(r) ==
    [r EXCEPT !.pc = "raised",
              !.result = [NoResult EXCEPT !.kind = "PuterAPIError", !.why = "parse"]]

\* the ValueError of _build_user_message leaves chat as it is: the call is
\* made before the try block
RaiseInvalid(r) ==
    [r EXCEPT !.pc = "raised", !.result = [NoResult EXCEPT !.kind = "ValueError"]]

\* StartChat with the model of the call kept as the session's model
StartChatSticky(c, solo, max_chats, mode, prompt, model, images, has_parts, content_parts) ==
    /\ calls[c].pc = "idle"
    /\ MayStart(solo)
    /\ Len(chat_history) < 2 * max_chats
    /\ LET m == IF model = "None" THEN current_model ELSE model
           content == _build_user_content(prompt, images, has_parts, content_parts)
           user_message == Msg("user", content)
           r0 == [IdleCall EXCEPT !.op = "chat", !.mode = mode, !.before = chat_history,
                                  !.token0 = token, !.model0 = current_model,
                                  !.args = [prompt |-> prompt, model |-> model,
                                            images |-> images, has_parts |-> has_parts,
                                            content_parts |-> content_parts]]
           r1 == [r0 EXCEPT !.user_message = user_message,
                            !.messages = Append(chat_history, user_message),
                            !.model = m, !.driver = _get_driver_for_model(m)]
       IN  IF content = Invalid
           THEN /\ calls' = [calls EXCEPT ![c] = RaiseInvalid(r0)]
                /\ UNCHANGED throttler
           ELSE IF token \in {"None", ""}
           THEN /\ calls' = [calls EXCEPT ![c] =
                       [r1 EXCEPT !.pc = "raised",
                                  !.result = [NoResult EXCEPT !.kind = "PuterAuthError",
                                                              !.why = "notoken"]]]
                /\ UNCHANGED throttler
           ELSE /\ calls' = [calls EXCEPT ![c] = Enter(r1)]
                /\ throttler' = ThrottlerAfter(r1)
    /\ current_model' = (IF model = "None" THEN current_model ELSE model)
    /\ UNCHANGED <<config, token, creds, chat_history, successes>>

\* From the call to the first suspension: the message, the draft, the auth
\* check and, with a token, the first request (ai.py 441-473, 601-635).
StartChat(c, solo, max_chats, mode, prompt, model, images, has_parts, content_parts) ==
    /\ calls[c].pc = "idle"
    /\ MayStart(solo)
    /\ Len(chat_history) < 2 * max_chats
    /\ LET m == IF model = "None" THEN current_model ELSE model
           content == _build_user_content(prompt, images, has_parts, content_parts)
           user_message == Msg("user", content)
           r0 == [IdleCall EXCEPT !.op = "chat", !.mode = mode, !.before = chat_history,
                                  !.token0 = token, !.model0 = current_model,
                                  !.args = [prompt |-> prompt, model |-> model,
                                            images |-> images, has_parts |-> has_parts,
                                            content_parts |-> content_parts]]
           r1 == [r0 EXCEPT !.user_message = user_message,
                            !.messages = Append(chat_history, user_message),
                            !.model = m, !.driver = _get_driver_for_model(m)]
       IN  IF content = Invalid
           THEN /\ calls' = [calls EXCEPT ![c] = RaiseInvalid(r0)]
                /\ UNCHANGED throttler
           ELSE IF token \in {"None", ""}
           THEN /\ calls' = [calls EXCEPT ![c] =
                       [r1 EXCEPT !.pc = "raised",
                                  !.result = [NoResult EXCEPT !.kind = "PuterAuthError",
                                                              !.why = "notoken"]]]
                /\ UNCHANGED throttler
           ELSE /\ calls' = [calls EXCEPT ![c] = Enter(r1)]
                /\ throttler' = ThrottlerAfter(r1)
    /\ UNCHANGED <<config, token, creds, current_model, chat_history, successes>>

\* AppendUser with the user message left out of the commit
AppendUserSkipped(history, user_message) == history

\* self.chat_history.append(copy.deepcopy(user_message))
AppendUser(history, user_message) == Append(history, DeepCopyMsg(user_message))

\* AppendReply with the reply filed under the user's role
AppendReplyAsUser(history, content) == Append(history, Msg("user", StrContent(content)))

\* self.chat_history.append({"role": "assistant", "content": content})
AppendReply(history, content) == Append(history, Msg("assistant", StrContent(content)))

\* The response is in: response.json() (sync), extract_content, and the
\* commit.  The async call appends both entries without suspending; a thread
\* may be preempted between the two appends (ai.py 474-569, 637-719).
\* The keys of debug_info, which the marker string "No content in AI
\* response. Debug: ..." prints
DebugInfo(mode) ==
    IF mode = "sync" THEN "status,response_keys,response_preview"
    ELSE "response_keys,response_preview"

\* Preemptible with a suspension point between the two appends of async_chat
PreemptibleAlways(r) == TRUE

\* Whether another caller can run between the two appends of the commit: a
\* thread can be preempted there; a task gives the loop up only at an await,
\* and async_chat has none after _async_retry_request has returned.
Preemptible(r) == r.mode = "sync"

FinishChat(c) ==
    /\ calls[c].pc = "got_response"
    /\ calls[c].op = "chat"
    /\ LET r == calls[c]
           cls == IF r.response.kind = "badjson" THEN "raise"
                  ELSE Classify(extract_content(r.response.body))
           text == extract_content(r.response.body).v
       IN  CASE cls = "raise" ->
                  /\ calls' = [calls EXCEPT ![c] =
                         [r EXCEPT !.pc = "raised",
                                   !.result = [NoResult EXCEPT !.kind = "PuterAPIError",
                                                               !.why = "parse"]]]
                  /\ UNCHANGED <<chat_history, successes>>
             [] cls = "miss" ->
                  /\ calls' = [calls EXCEPT ![c] =
                         [r EXCEPT !.pc = "returned",
                                   !.result = [NoResult EXCEPT !.kind = "marker",
                                                               !.text = DebugInfo(r.mode)]]]
                  /\ UNCHANGED <<chat_history, successes>>
             [] cls = "text" /\ ~Preemptible(r) ->
                  /\ chat_history' = AppendReply(AppendUser(chat_history, r.user_message), text)
                  /\ calls' = [calls EXCEPT ![c] =
                         [r EXCEPT !.pc = "returned", !.content = text,
                                   !.prefix = chat_history,
                                   !.result = [NoResult EXCEPT !.kind = "text", !.text = text]]]
                  /\ successes' = successes + 1
             [] cls = "text" /\ Preemptible(r) ->
                  /\ chat_history' = AppendUser(chat_history, r.user_message)
                  /\ calls' = [calls EXCEPT ![c] =
                         [r EXCEPT !.pc = "commit2", !.content = text,
                                   !.prefix = chat_history]]
                  /\ UNCHANGED successes
    /\ UNCHANGED <<config, token, creds, current_model, throttler>>

\* self.chat_history.append({"role": "assistant", "content": content}); return content
AppendAssistant(c) ==
    /\ calls[c].pc = "commit2"
    /\ chat_history' = AppendReply(chat_history, calls[c].content)
    /\ calls' = [calls EXCEPT ![c] =
           [@ EXCEPT !.pc = "returned",
                     !.result = [NoResult EXCEPT !.kind = "text", !.text = calls[c].content]]]
    /\ successes' = successes + 1
    /\ UNCHANGED <<config, token, creds, current_model, throttler>>

(***************************************************************************)
(* login and async_login.                                                  *)
(***************************************************************************)
\* StartLogin without the test of the credentials
StartLoginUnchecked(c, solo, mode) ==
    /\ calls[c].pc = "idle"
    /\ MayStart(solo)
    /\ LET r0 == [IdleCall EXCEPT !.op = "login", !.mode = mode, !.before = chat_history,
                                  !.token0 = token, !.model0 = current_model]
       IN  /\ calls' = [calls EXCEPT ![c] = Enter(r0)]
           /\ throttler' = ThrottlerAfter(r0)
    /\ UNCHANGED <<config, token, creds, current_model, chat_history, successes>>

StartLogin(c, solo, mode) ==
    /\ calls[c].pc = "idle"
    /\ MayStart(solo)
    /\ LET r0 == [IdleCall EXCEPT !.op = "login", !.mode = mode, !.before = chat_history,
                                  !.token0 = token, !.model0 = current_model]
       IN  IF ~creds
           THEN /\ calls' = [calls EXCEPT ![c] =
                       [r0 EXCEPT !.pc = "raised",
                                  !.result = [NoResult EXCEPT !.kind = "PuterAuthError",
                                                              !.why = "nocreds"]]]
                /\ UNCHANGED throttler
           ELSE /\ calls' = [calls EXCEPT ![c] = Enter(r0)]
                /\ throttler' = ThrottlerAfter(r0)
    /\ UNCHANGED <<config, token, creds, current_model, chat_history, successes>>

\* Why login raises on the answer it received; "" when it accepts it:
\* data = response.json(); if data.get("proceed"): ... data["token"] ...
LoginVerdict(o) ==
    CASE o.kind = "badjson" -> "parse"
      [] TypeAt(o.body, <<>>) # "dict" -> "parse"
      [] ~Truthy(o.body, <<"proceed">>) -> "rejected"
      [] ~Has(o.body, <<"token">>) -> "keyerror"
      [] OTHER -> ""

\* self._token = data["token"], reached only when the answer is accepted
TokenAfter(tok, o, why) ==
    IF why # "" THEN tok
    ELSE IF TypeAt(o.body, <<"token">>) = "str" THEN Node(o.body, <<"token">>).v
    ELSE "None"

\* LoginOutcome with a refused login returning False, as the docstring has it
LoginOutcomeFalse(r, why) ==
    IF why = ""
    THEN [r EXCEPT !.pc = "returned", !.result = [NoResult EXCEPT !.kind = "True"]]
    ELSE IF why = "rejected"
    THEN [r EXCEPT !.pc = "returned", !.result = [NoResult EXCEPT !.kind = "False"]]
    ELSE [r EXCEPT !.pc = "raised",
                   !.result = [NoResult EXCEPT !.kind = "PuterAuthError", !.why = why]]

\* return True, or raise PuterAuthError (every exception becomes one)
LoginOutcome(r, why) ==
    IF why = ""
    THEN [r EXCEPT !.pc = "returned", !.result = [NoResult EXCEPT !.kind = "True"]]
    ELSE [r EXCEPT !.pc = "raised",
                   !.result = [NoResult EXCEPT !.kind = "PuterAuthError", !.why = why]]

FinishLogin(c) ==
    /\ calls[c].pc = "got_response"
    /\ calls[c].op = "login"
    /\ token' = TokenAfter(token, calls[c].response, LoginVerdict(calls[c].response))
    /\ calls' = [calls EXCEPT ![c] = LoginOutcome(@, LoginVerdict(calls[c].response))]
    /\ UNCHANGED <<config, creds, current_model, chat_history, throttler, successes>>

(***************************************************************************)
(* The steps of a call between its start and its response.                 *)
(***************************************************************************)
\* A task waiting in Throttler.acquire gets its slot and sends its first request.
Acquire(c) ==
    /\ calls[c].pc = "acquire"
    /\ SlotFree
    /\ throttler' = Acquired
    /\ calls' = [calls EXCEPT ![c] = [EnterLoop(@) EXCEPT !.slots = @ + 1, !.gate_age = 0]]
    /\ UNCHANGED <<config, token, creds, current_model, chat_history, successes>>

\* The request in flight ends: a response, or an exception in the try block.
Complete(c, o) ==
    /\ calls[c].pc = "inflight"
    /\ calls' = [calls EXCEPT ![c] =
           IF Succeeds(@.mode, o) THEN [@ EXCEPT !.pc = "got_response", !.response = o]
           ELSE OnFailure([@ EXCEPT !.failures = @ + 1], o.kind)]
    /\ UNCHANGED <<config, token, creds, current_model, chat_history, throttler, successes>>

\* Complete, with the outcome kept as history
CompleteSeen(c, o) ==
    /\ calls[c].pc = "inflight"
    /\ calls' = [calls EXCEPT ![c] =
           IF Succeeds(@.mode, o)
           THEN [@ EXCEPT !.pc = "got_response", !.response = o, !.seen = Append(@, o)]
           ELSE OnFailure([@ EXCEPT !.failures = @ + 1, !.seen = Append(@, o)], o.kind)]
    /\ UNCHANGED <<config, token, creds, current_model, chat_history, throttler, successes>>

\* The backoff sleep is over (its length is recorded in sleeps when it starts).
Wake(c) ==
    /\ calls[c].pc = "sleeping"
    /\ calls' = [calls EXCEPT ![c] = NextAttempt(@)]
    /\ UNCHANGED <<config, token, creds, current_model, chat_history, throttler, successes>>

\* The task of an async call is cancelled where it is suspended;
\* asyncio.CancelledError is not an Exception, so no handler catches it.
Cancel(c) ==
    /\ calls[c].mode = "async"
    /\ calls[c].pc \in {"acquire", "inflight", "sleeping", "got_response"}
    /\ calls' = [calls EXCEPT ![c] =
           [@ EXCEPT !.pc = "cancelled", !.result = [NoResult EXCEPT !.kind = "cancelled"]]]
    /\ UNCHANGED <<config, token, creds, current_model, chat_history, throttler, successes>>

\* The caller has the call's result; it may call again.
Finish(c) ==
    /\ calls[c].pc \in Terminal
    /\ calls' = [calls EXCEPT ![c] = IdleCall]
    /\ UNCHANGED <<config, token, creds, current_model, chat_history, throttler, successes>>

\* One unit of time passes: the entries of the throttler's log age (an age
\* beyond period is kept as period + 1: flush drops the entry whatever it is).
Tick(solo) ==
    /\ Taken(solo)
    /\ \E i \in DOMAIN throttler.task_logs : throttler.task_logs[i] <= throttler.period
    /\ throttler' = [throttler EXCEPT !.task_logs =
           [i \in DOMAIN @ |-> IF @[i] > throttler.period THEN @[i] ELSE @[i] + 1]]
    /\ UNCHANGED <<config, token, creds, current_model, chat_history, calls, successes>>

\* An age one unit later; an age beyond period stays where it is.
Older(age, period) == IF age > period THEN age ELSE age + 1

\* One unit of time passes for every task of the event loop: the entries of
\* the throttler's log age and the backoff sleeps (asyncio.sleep(delay)) run
\* down, as do the times kept as history.
Advance ==
    /\ \/ \E i \in DOMAIN throttler.task_logs : throttler.task_logs[i] <= throttler.period
       \/ \E c \in Calls :
              \/ calls[c].wake_in > 0
              \/ calls[c].gate_age \in 0 .. throttler.period
              \/ \E i \in DOMAIN calls[c].sent : calls[c].sent[i] <= throttler.period
    /\ throttler' = [throttler EXCEPT !.task_logs =
           [i \in DOMAIN @ |-> Older(@[i], throttler.period)]]
    /\ calls' = [c \in Calls |->
           [calls[c] EXCEPT
               !.wake_in = IF @ > 0 THEN @ - 1 ELSE 0,
               !.gate_age = IF @ < 0 THEN @ ELSE Older(@, throttler.period),
               !.sent = [i \in DOMAIN @ |-> Older(@[i], throttler.period)]]]
    /\ UNCHANGED <<config, token, creds, current_model, chat_history, successes>>

\* await asyncio.sleep(delay) returns once delay has passed.
WakeDue(c) ==
    /\ calls[c].wake_in = 0
    /\ Wake(c)

(***************************************************************************)
(* The caller changes, after chat has ended, the dicts it passed (content  *)
(* parts, pre-built image dicts): every reference to one of those objects  *)
(* sees the change, a copy does not.                                       *)
(***************************************************************************)
Seen(part) == IF part.ref = "caller" THEN [part EXCEPT !.text = "changed"] ELSE part

SeenIn(message) == [message EXCEPT !.content.parts = [i \in DOMAIN @ |-> Seen(@[i])]]

Mutate(c) ==
    /\ calls[c].op = "chat"
    /\ calls[c].pc \in Terminal
    /\ ~calls[c].mutated
    /\ \/ \E i \in DOMAIN calls[c].args.content_parts : calls[c].args.has_parts
       \/ \E i \in DOMAIN calls[c].args.images : calls[c].args.images[i].ty = "dict"
    /\ calls' = [calls EXCEPT ![c] =
           [@ EXCEPT !.mutated = TRUE,
                     !.user_message = SeenIn(@),
                     !.messages = [i \in DOMAIN @ |-> SeenIn(@[i])]]]
    /\ chat_history' = [i \in DOMAIN chat_history |-> SeenIn(chat_history[i])]
    /\ UNCHANGED <<config, token, creds, current_model, throttler, successes>>

(***************************************************************************)
(* The other operations of the session, and of the process.                *)
(***************************************************************************)
\* clear_chat_history taken for a reset of the session: the default model is
\* selected again
clear_and_reset(c, solo) ==
    /\ calls[c].pc = "idle"
    /\ MayStart(solo)
    /\ chat_history' = <<>>
    /\ successes' = 0
    /\ current_model' = "claude-opus-4"
    /\ calls' = [calls EXCEPT ![c] =
           [IdleCall EXCEPT !.op = "clear", !.pc = "returned", !.before = chat_history,
                            !.token0 = token, !.model0 = current_model,
                            !.result = [NoResult EXCEPT !.kind = "None"]]]
    /\ UNCHANGED <<config, token, creds, throttler>>

\* history: a call under way when the transcript is cleared is marked
\* "clear", one that has committed before is marked "stale"
Marked(r) ==
    IF r.op = "chat" /\ r.pc \notin ({"idle"} \cup Terminal)
    THEN [r EXCEPT !.disturbed = @ \cup {"clear"}]
    ELSE IF r.op = "chat" /\ r.pc = "returned" /\ r.result.kind = "text"
    THEN [r EXCEPT !.disturbed = @ \cup {"stale"}]
    ELSE r

\* clear_chat_history with the calls under way cancelled
clear_and_cancel(c, solo) ==
    /\ calls[c].pc = "idle"
    /\ MayStart(solo)
    /\ chat_history' = <<>>
    /\ successes' = 0
    /\ calls' = [d \in Calls |->
           IF d = c
           THEN [IdleCall EXCEPT !.op = "clear", !.pc = "returned", !.before = chat_history,
                                 !.token0 = token, !.model0 = current_model,
                                 !.result = [NoResult EXCEPT !.kind = "None"]]
           ELSE IF Active(d) THEN [Marked(calls[d]) EXCEPT !.pc = "cancelled"]
           ELSE Marked(calls[d])]
    /\ UNCHANGED <<config, token, creds, current_model, throttler>>

\* self.chat_history = []
clear_chat_history(c, solo) ==
    /\ calls[c].pc = "idle"
    /\ MayStart(solo)
    /\ chat_history' = <<>>
    /\ successes' = 0
    /\ calls' = [d \in Calls |->
           IF d = c
           THEN [IdleCall EXCEPT !.op = "clear", !.pc = "returned", !.before = chat_history,
                                 !.token0 = token, !.model0 = current_model,
                                 !.result = [NoResult EXCEPT !.kind = "None"]]
           ELSE Marked(calls[d])]
    /\ UNCHANGED <<config, token, creds, current_model, throttler>>

\* set_model without the membership test
set_model_unchecked(c, solo, model_name) ==
    /\ calls[c].pc = "idle"
    /\ MayStart(solo)
    /\ current_model' = model_name
    /\ calls' = [calls EXCEPT ![c] =
           [IdleCall EXCEPT !.op = "set_model", !.pc = "returned", !.model = model_name,
                            !.before = chat_history, !.token0 = token,
                            !.model0 = current_model,
                            !.result = [NoResult EXCEPT !.kind = "True"]]]
    /\ UNCHANGED <<config, token, creds, chat_history, throttler, successes>>

\* if model_name in self.available_models: self.current_model = model_name;
\* return True; otherwise return False
set_model(c, solo, model_name) ==
    /\ calls[c].pc = "idle"
    /\ MayStart(solo)
    /\ current_model' = IF model_name \in DOMAIN available_models THEN model_name
                        ELSE current_model
    /\ calls' = [calls EXCEPT ![c] =
           [IdleCall EXCEPT !.op = "set_model", !.pc = "returned", !.model = model_name,
                            !.before = chat_history, !.token0 = token,
                            !.model0 = current_model,
                            !.result = [NoResult EXCEPT !.kind =
                                IF model_name \in DOMAIN available_models THEN "True"
                                ELSE "False"]]]
    /\ UNCHANGED <<config, token, creds, chat_history, throttler, successes>>

\* config.update(**config_overrides), as PuterAI.__init__ runs it for another
\* session built with overrides (ai.py 62-63): the supplied field changes for
\* every reader of the process-wide object, the calls in their retry loop too.
Update(cfg, f, v) == [cfg EXCEPT ![f] = v]

ConfigOverride(solo, f, v) ==
    /\ Taken(solo)
    /\ config[f] # v
    /\ config' = Update(config, f, v)
    /\ calls' = [c \in Calls |->
           IF calls[c].pc # "idle"
           THEN [calls[c] EXCEPT !.disturbed =
                     @ \cup {IF f = "max_retries" THEN "retries" ELSE "delay"}]
           ELSE calls[c]]
    /\ UNCHANGED <<token, creds, current_model, chat_history, throttler, successes>>

(***************************************************************************)
(* The specifications.  A scope names the inputs the operations draw from: *)
(* the arguments of chat, the names passed to set_model, the overrides     *)
(* written to the configuration and the bodies the gateway answers with.   *)
(* Every specification issues the operations of the session one at a time, *)
(* from one caller; the configuration may change under a call, since other *)
(* sessions of the process write it.                                       *)
(***************************************************************************)
Step(cs, solo, sc) ==
    \/ \E c \in cs, mode \in {"sync", "async"}, prompt \in sc.prompts, model \in sc.models,
          images \in sc.images, has_parts \in sc.parts_given, content_parts \in sc.parts :
          StartChat(c, solo, sc.max_chats, mode, prompt, model, images, has_parts,
                    content_parts)
    \/ \E c \in cs, mode \in {"sync", "async"} : StartLogin(c, solo, mode)
    \/ \E c \in cs : Acquire(c)
    \/ \E c \in cs : \E o \in Outcomes(calls[c].op, sc.chat_bodies, sc.login_bodies) :
          Complete(c, o)
    \/ \E c \in cs : Wake(c)
    \/ \E c \in cs : FinishChat(c)
    \/ \E c \in cs : AppendAssistant(c)
    \/ \E c \in cs : FinishLogin(c)
    \/ \E c \in cs : Cancel(c)
    \/ \E c \in cs : Finish(c)
    \/ Tick(solo)
    \/ \E c \in cs : clear_chat_history(c, solo)
    \/ \E c \in cs, m \in sc.names : set_model(c, solo, m)
    \/ \E o \in sc.overrides : ConfigOverride(solo, o[1], o[2])

Configs(retries) ==
    [max_retries : retries, retry_delay : RetryDelays, backoff_factor : BackoffFactors]

Overrides(retries) ==
    {<<"max_retries", v>> : v \in retries}
    \cup {<<"retry_delay", v>> : v \in RetryDelays}
    \cup {<<"backoff_factor", v>> : v \in BackoffFactors}

\* The transport: every configuration and override, one message, one model.
RetryScope ==
    [prompts |-> {"hi"}, images |-> {<<>>}, parts_given |-> {FALSE}, parts |-> {<<>>},
     models |-> {"None"}, names |-> {"mystery"}, max_chats |-> 1,
     overrides |-> Overrides(0 .. MaxRetries),
     chat_bodies |-> {BodyHello, BodyEmpty}, login_bodies |-> {BodyProceed("t1"), BodyRefused}]

InitRetry == InitWith(Configs(0 .. MaxRetries), {"t1"}, {TRUE}, RateLimits, Periods)

NextRetry == Step({1}, TRUE, RetryScope)

SpecRetry == InitRetry /\ [][NextRetry]_vars

\* The transcript: every argument of chat and every body, at most one retry.
ChatScope ==
    [prompts |-> {"None", "hi"}, images |-> {<<>>, <<Img(0, "str", "missing.png", "None")>>},
     parts_given |-> BOOLEAN, parts |-> {<<>>, <<Given(TextPart("yo"))>>},
     models |-> {"None", "mystery"}, names |-> {"gpt-4", "mystery"}, max_chats |-> MaxChats,
     overrides |-> {<<"max_retries", 0>>, <<"max_retries", 1>>},
     chat_bodies |-> ChatBodies, login_bodies |-> {BodyProceed("t1"), BodyRefused}]

Init ==
    InitWith({[max_retries |-> 1, retry_delay |-> 1, backoff_factor |-> 2]}, {"t1"}, {TRUE},
             RateLimits, Periods)

Next == Step({1}, TRUE, ChatScope)

Spec == Init /\ [][Next]_vars

\* Authentication: every token, credentials or none, every login answer.
AuthScope ==
    [prompts |-> {"None", "hi"}, images |-> {<<>>}, parts_given |-> {FALSE}, parts |-> {<<>>},
     models |-> {"None"}, names |-> {"mystery"}, max_chats |-> 1,
     overrides |-> {<<"max_retries", 0>>, <<"max_retries", 1>>},
     chat_bodies |-> {BodyHello, BodyEmpty}, login_bodies |-> LoginBodies]

InitAuth ==
    InitWith({[max_retries |-> 1, retry_delay |-> 1, backoff_factor |-> 2]},
             {"None", "t0"}, BOOLEAN, RateLimits, Periods)

NextAuth == Step({1}, TRUE, AuthScope)

SpecAuth == InitAuth /\ [][NextAuth]_vars

\* The throttler: the tasks of one event loop, each making one async call of
\* the same session (two chats and a login), with time passing; a request
\* fails or is answered, and no task is cancelled.
GateCalls == {1, 2, 3}

GateLogins == {3}

GateLimits == {1, 2}

GatePeriods == {2}

GateOutcomes(op) ==
    {o \in Outcomes(op, {BodyHello}, {BodyProceed("t1")}) : o.kind \in {"ok", "network"}}

InitGate ==
    InitWith({[max_retries |-> 1, retry_delay |-> 1, backoff_factor |-> 2]}, {"t1"}, {TRUE},
             GateLimits, GatePeriods)

NextGate ==
    \/ \E c \in GateCalls \ GateLogins :
          StartChat(c, FALSE, Cardinality(GateCalls), "async", "hi", "None", <<>>, FALSE, <<>>)
    \/ \E c \in GateLogins : StartLogin(c, FALSE, "async")
    \/ \E c \in GateCalls : Acquire(c)
    \/ \E c \in GateCalls : \E o \in GateOutcomes(calls[c].op) : Complete(c, o)
    \/ \E c \in GateCalls : WakeDue(c)
    \/ \E c \in GateCalls : FinishChat(c)
    \/ \E c \in GateCalls : FinishLogin(c)
    \/ Advance

SpecGate == InitGate /\ [][NextGate]_vars

\* Time advances, and a task waiting in Throttler.acquire polls the log again
\* every retry_interval: it is not kept from a slot that stays free.  The
\* throttler lets one call through per period, so that every other one waits.
InitGateFair ==
    InitWith({[max_retries |-> 1, retry_delay |-> 1, backoff_factor |-> 2]}, {"t1"}, {TRUE},
             {1}, GatePeriods)

SpecGateFair ==
    /\ InitGateFair
    /\ [][NextGate]_vars
    /\ WF_vars(Advance)
    /\ \A c \in GateCalls : WF_vars(Acquire(c))

\* Tasks: two async_chat calls of one session as tasks of one event loop.  A
\* call that sleeps with time.sleep keeps the loop's thread, and no other
\* task runs until it wakes; one that awaits asyncio.sleep gives the loop up.
TaskCalls == {1, 2}

\* Blocking with every backoff sleep taken for time.sleep
BlockingAlways(r) == r.pc = "sleeping"

\* time.sleep(delay) in _retry_request; await asyncio.sleep(delay) in
\* _async_retry_request
Blocking(r) == r.pc = "sleeping" /\ r.mode = "sync"

LoopFree(c) == \A d \in TaskCalls \ {c} : ~Blocking(calls[d])

TaskStep(c) ==
    /\ LoopFree(c)
    /\ \/ StartChat(c, FALSE, Cardinality(TaskCalls), "async", "hi", "None", <<>>, FALSE, <<>>)
       \/ Acquire(c)
       \/ \E o \in GateOutcomes("chat") : Complete(c, o)
       \/ WakeDue(c)
       \/ FinishChat(c)

InitTasks ==
    InitWith({[max_retries |-> 1, retry_delay |-> 2, backoff_factor |-> 2]}, {"t1"}, {TRUE},
             {1}, {1})

NextTasks ==
    \/ \E c \in TaskCalls : TaskStep(c)
    \/ Advance

SpecTasks == InitTasks /\ [][NextTasks]_vars

\* Concurrent async_chat: two tasks of one event loop, each with its own
\* prompt, answered with text or a network failure; a third caller may clear
\* the transcript at any point.
AsyncCalls == {1, 2}

ClearCalls == {3}

AsyncPrompt(c) == IF c = 1 THEN "hi" ELSE "yo"

InitAsync ==
    InitWith({[max_retries |-> 1, retry_delay |-> 1, backoff_factor |-> 2]}, {"t1"}, {TRUE},
             RateLimits, Periods)

NextAsync ==
    \/ \E c \in AsyncCalls :
          StartChat(c, FALSE, Cardinality(AsyncCalls), "async", AsyncPrompt(c), "None", <<>>,
                    FALSE, <<>>)
    \/ \E c \in AsyncCalls : Acquire(c)
    \/ \E c \in AsyncCalls : \E o \in GateOutcomes("chat") : Complete(c, o)
    \/ \E c \in AsyncCalls : WakeDue(c)
    \/ \E c \in AsyncCalls : FinishChat(c)
    \/ Advance

SpecAsync == InitAsync /\ [][NextAsync]_vars

NextClear ==
    \/ NextAsync
    \/ \E c \in ClearCalls : clear_chat_history(c, FALSE)

SpecClear == InitAsync /\ [][NextClear]_vars

\* chat and async_chat side by side: a thread calls chat and a task calls
\* async_chat with the same arguments on one session, each served any
\* outcome at each attempt.
TwinSync == 1

TwinAsync == 2

TwinCalls == {TwinSync, TwinAsync}

TwinOutcomes == Outcomes("chat", {BodyHello, BodyEmpty, BodyNumber}, {})

InitTwin ==
    InitWith({[max_retries |-> 1, retry_delay |-> 1, backoff_factor |-> 2]}, {"t1"}, {TRUE},
             RateLimits, Periods)

NextTwin ==
    \/ StartChat(TwinSync, FALSE, 2, "sync", "hi", "None", <<>>, FALSE, <<>>)
    \/ StartChat(TwinAsync, FALSE, 2, "async", "hi", "None", <<>>, FALSE, <<>>)
    \/ \E c \in TwinCalls : \E o \in TwinOutcomes : CompleteSeen(c, o)
    \/ \E c \in TwinCalls : Wake(c)
    \/ \E c \in TwinCalls : FinishChat(c)
    \/ \E c \in TwinCalls : AppendAssistant(c)

SpecTwin == InitTwin /\ [][NextTwin]_vars

\* Every call to its end: one caller makes chat, async_chat, login and
\* async_login calls one after the other, with or without a token and
\* credentials, each attempt served any outcome.  A request in flight ends
\* (by its answer, an error or the timeout), a sleep ends, time passes and
\* the throttler is polled again, and the caller's thread or task runs on.
LiveCalls == {1}

LiveConfigs == [max_retries : 0 .. MaxRetries, retry_delay : {1}, backoff_factor : {2}]

LiveOutcomes(op) == Outcomes(op, {BodyHello, BodyEmpty, BodyNumber}, LoginBodies)

InitLive == InitWith(LiveConfigs, {"None", "t1"}, BOOLEAN, RateLimits, Periods)

NextLive ==
    \/ \E c \in LiveCalls, mode \in {"sync", "async"}, prompt \in {"None", "hi"} :
          StartChat(c, TRUE, 1, mode, prompt, "None", <<>>, FALSE, <<>>)
    \/ \E c \in LiveCalls, mode \in {"sync", "async"} : StartLogin(c, TRUE, mode)
    \/ \E c \in LiveCalls : Acquire(c)
    \/ \E c \in LiveCalls : \E o \in LiveOutcomes(calls[c].op) : Complete(c, o)
    \/ \E c \in LiveCalls : Wake(c)
    \/ \E c \in LiveCalls : FinishChat(c)
    \/ \E c \in LiveCalls : AppendAssistant(c)
    \/ \E c \in LiveCalls : FinishLogin(c)
    \/ \E c \in LiveCalls : Finish(c)
    \/ Tick(TRUE)

SpecLive ==
    /\ InitLive
    /\ [][NextLive]_vars
    /\ WF_vars(Tick(TRUE))
    /\ \A c \in LiveCalls :
           /\ WF_vars(Acquire(c))
           /\ WF_vars(\E o \in LiveOutcomes(calls[c].op) : Complete(c, o))
           /\ WF_vars(Wake(c))
           /\ WF_vars(FinishChat(c))
           /\ WF_vars(AppendAssistant(c))
           /\ WF_vars(FinishLogin(c))

\* Threads: two threads of one process calling chat on the same session, each
\* at its own pace; a thread may be preempted between any two statements.
ThreadCalls == {1, 2}

ThreadOutcomes(op) ==
    {o \in Outcomes(op, {BodyHello, BodyEmpty}, {BodyProceed("t1")}) :
        o.kind \in {"ok", "network"}}

InitThreads ==
    InitWith({[max_retries |-> 1, retry_delay |-> 1, backoff_factor |-> 2]}, {"t1"}, {TRUE},
             RateLimits, Periods)

NextThreads ==
    \/ \E c \in ThreadCalls, prompt \in {"hi", "yo"} :
          StartChat(c, FALSE, MaxChats, "sync", prompt, "None", <<>>, FALSE, <<>>)
    \/ \E c \in ThreadCalls : StartLogin(c, FALSE, "sync")
    \/ \E c \in ThreadCalls : \E o \in ThreadOutcomes(calls[c].op) : Complete(c, o)
    \/ \E c \in ThreadCalls : Wake(c)
    \/ \E c \in ThreadCalls : FinishChat(c)
    \/ \E c \in ThreadCalls : AppendAssistant(c)
    \/ \E c \in ThreadCalls : FinishLogin(c)
    \/ \E c \in ThreadCalls : Finish(c)

SpecThreads == InitThreads /\ [][NextThreads]_vars

\* The message: chat or async_chat with every shape of prompt, image and
\* content part, answered with text; the caller changes its dicts afterwards.
ContentCalls == {1}

ContentPrompts == {"None", "", "hi"}

ContentDicts ==
    {Given(ImagePart("https://x.test/a.png")), Given(TextPart("hi")), Given(TextPart(""))}

ContentImages ==
    {Img(t, "str", u, "None") : t \in {0, 2}, u \in DataURIs \cup HttpURLs \cup FilePaths}
    \cup {Img(2, "str", u, "image/webp") : u \in DataURIs \cup HttpURLs \cup FilePaths}
    \cup {Img(0, "str", "missing.png", "None")}
    \cup {Img(0, "bytes", "abc", "None"), Img(2, "bytes", "abc", "image/jpeg"),
          Img(0, "bytes", "", "None")}
    \cup {Img(0, "file", h, "None") : h \in {"h_bytes", "h_str", "h_empty", "h_none", "h_int"}}
    \cup {Img(2, "file", "h_str", "image/webp"), Img(0, "other", "", "None"),
          Img(1, "bytes", "abc", "None"), Img(3, "bytes", "abc", "image/png")}
    \cup {DictImg(0, d, "None") : d \in ContentDicts}

ContentImageLists ==
    {<<>>} \cup {<<i>> : i \in ContentImages}
    \cup {<<i, j>> : i \in {Img(0, "bytes", "abc", "None"), DictImg(0, Given(TextPart("hi")), "None")},
                     j \in {Img(0, "str", "https://x.test/a.png", "None"),
                            Img(0, "str", "missing.png", "None")}}

ContentPartLists ==
    {<<>>, <<Given(TextPart("yo"))>>, <<Given(ImagePart("https://x.test/a.png"))>>,
     <<Given(ImagePart("https://x.test/a.png")), Given(TextPart("yo"))>>}

InitContent ==
    InitWith({[max_retries |-> 0, retry_delay |-> 1, backoff_factor |-> 2]}, {"t1"}, {TRUE},
             RateLimits, Periods)

NextContent ==
    \/ \E c \in ContentCalls, mode \in {"sync", "async"}, prompt \in ContentPrompts,
          images \in ContentImageLists :
          StartChat(c, TRUE, 1, mode, prompt, "None", images, FALSE, <<>>)
    \/ \E c \in ContentCalls, mode \in {"sync", "async"}, prompt \in {"None", "hi"},
          images \in {<<>>, <<Img(0, "str", "missing.png", "None")>>},
          content_parts \in ContentPartLists :
          StartChat(c, TRUE, 1, mode, prompt, "None", images, TRUE, content_parts)
    \/ \E c \in ContentCalls : Complete(c, [kind |-> "ok", body |-> BodyHello])
    \/ \E c \in ContentCalls : FinishChat(c)
    \/ \E c \in ContentCalls : AppendAssistant(c)
    \/ \E c \in ContentCalls : Mutate(c)

SpecContent == InitContent /\ [][NextContent]_vars

NormCalls == {1}

\* List-valued content: the body holds, at result.message.content or at
\* result.content, a list of up to three objects, each with or without a
\* type and a text.
ListItems ==
    {[ty |-> "text", tx |-> "a"], [ty |-> "text", tx |-> "b"], [ty |-> "text", tx |-> "absent"],
     [ty |-> "image_url", tx |-> "z"], [ty |-> "absent", tx |-> "z"]}

ListSeqs == {<<>>} \cup UNION {[1 .. n -> ListItems] : n \in 1 .. 3}

\* the nodes of the object item at the place q
ItemNodes(q, item) ==
    {N(q, "dict", "")}
    \cup (IF item.ty = "absent" THEN {} ELSE {N(Append(q, "type"), "str", item.ty)})
    \cup (IF item.tx = "absent" THEN {} ELSE {N(Append(q, "text"), "str", item.tx)})

ListBody(path, items) ==
    {Root} \cup Above(path) \cup {N(path, "list", "")}
    \cup UNION {ItemNodes(Append(path, Idx[i]), items[i]) : i \in DOMAIN items}

ListBodies == {ListBody(PatternPaths[k], items) : k \in {1, 2}, items \in ListSeqs}

InitList ==
    InitWith({[max_retries |-> 0, retry_delay |-> 1, backoff_factor |-> 2]}, {"t1"}, {TRUE},
             RateLimits, Periods)

NextList ==
    \/ \E c \in NormCalls, mode \in {"sync", "async"} :
          StartChat(c, TRUE, MaxChats, mode, "hi", "None", <<>>, FALSE, <<>>)
    \/ \E c \in NormCalls : \E b \in ListBodies : Complete(c, [kind |-> "ok", body |-> b])
    \/ \E c \in NormCalls : FinishChat(c)
    \/ \E c \in NormCalls : AppendAssistant(c)

SpecList == InitList /\ [][NextList]_vars

\* The normalizer: one chat or async_chat, answered by any body of NormBodies.
InitNorm ==
    InitWith({[max_retries |-> 0, retry_delay |-> 1, backoff_factor |-> 2]}, {"t1"}, {TRUE},
             RateLimits, Periods)

NextNorm ==
    \/ \E c \in NormCalls, mode \in {"sync", "async"} :
          StartChat(c, TRUE, MaxChats, mode, "hi", "None", <<>>, FALSE, <<>>)
    \/ \E c \in NormCalls : \E b \in NormBodies : Complete(c, [kind |-> "ok", body |-> b])
    \/ \E c \in NormCalls : FinishChat(c)
    \/ \E c \in NormCalls : AppendAssistant(c)

SpecNorm == InitNorm /\ [][NextNorm]_vars

(***************************************************************************)
(* The transport's retry policy (SpecRetry).                               *)
(***************************************************************************)
ExhaustedCall(r) == r.pc = "raised" /\ r.result.why = "exhausted"

Min(a, b) == IF a < b THEN a ELSE b

RECURSIVE SumSeq(_)
SumSeq(q) == IF q = <<>> THEN 0 ELSE Head(q) + SumSeq(Tail(q))

RECURSIVE GeomSum(_, _, _)
GeomSum(d, b, n) == IF n = 0 THEN 0 ELSE GeomSum(d, b, n - 1) + d * Pow(b, n - 1)

\* C1: a logical request, sync or async, all of whose attempts fail under a
\* max_retries that nobody rewrites meanwhile, invokes the request function
\* exactly max_retries + 1 times and then raises the exhaustion error; it
\* never makes more attempts than that, nor stops with fewer.
C1_AttemptsExact ==
    \A c \in Calls :
        LET r == calls[c] IN
        "retries" \notin r.disturbed =>
            /\ r.dispatched <= config.max_retries + 1
            /\ ExhaustedCall(r) =>
                   /\ r.dispatched = config.max_retries + 1
                   /\ r.failures = r.dispatched
            /\ r.failures = config.max_retries + 1 =>
                   /\ ExhaustedCall(r)
                   /\ r.result.kind = IF r.op = "chat" THEN "PuterAPIError" ELSE "PuterAuthError"

C1_Witness ==
    \E c \in Calls :
        /\ ExhaustedCall(calls[c])
        /\ calls[c].mode = "async"
        /\ calls[c].disturbed = {}
        /\ config.max_retries = MaxRetries
        /\ calls[c].dispatched = MaxRetries + 1

\* C2: under a configuration nobody rewrites meanwhile, the i-th sleep of a
\* request (i from 0) lasts retry_delay * backoff_factor^i, one sleep follows
\* each failed attempt but the last allowed one and none follows a success,
\* so an exhausted request has slept the sum over i < max_retries.
C2_BackoffDelays ==
    \A c \in Calls :
        LET r == calls[c] IN
        r.disturbed = {} =>
            /\ \A i \in 1 .. Len(r.sleeps) :
                   r.sleeps[i] = config.retry_delay * Pow(config.backoff_factor, i - 1)
            /\ Len(r.sleeps) = Min(r.failures, config.max_retries)
            /\ ExhaustedCall(r) =>
                   SumSeq(r.sleeps) =
                       GeomSum(config.retry_delay, config.backoff_factor, config.max_retries)

C2_Witness ==
    \E c \in Calls :
        /\ ExhaustedCall(calls[c])
        /\ calls[c].disturbed = {}
        /\ calls[c].sleeps = <<2, 6>>

\* C3: the transport stops at the first attempt that succeeds: when it hands
\* back a response, every attempt before it failed and none follows it, so a
\* first success at attempt k costs k + 1 invocations; and a failure of any
\* kind (network error, non-2xx status, timeout) with attempts left is retried,
\* never escalated.
C3_StopsAtFirstSuccess ==
    \A c \in Calls :
        LET r == calls[c] IN
        /\ r.response # NoOutcome =>
               /\ r.dispatched = r.failures + 1
               /\ r.response.kind = "ok" \/ (r.mode = "sync" /\ r.response.kind = "badjson")
               /\ r.pc \notin {"acquire", "inflight", "sleeping"}
               /\ ~ExhaustedCall(r)
        /\ r.pc = "inflight" => r.dispatched = r.failures + 1
        /\ r.pc = "sleeping" => r.dispatched = r.failures
        /\ ("retries" \notin r.disturbed /\ r.failures <= config.max_retries) => ~ExhaustedCall(r)

C3_Witness ==
    \E c \in Calls :
        /\ calls[c].pc = "got_response"
        /\ calls[c].response.kind = "ok"
        /\ calls[c].last_exception = "timeout"
        /\ calls[c].failures = 2
        /\ calls[c].dispatched = 3

\* C4: the exhaustion error reports as many attempts as the request made and
\* carries its last failure, whatever happens to the configuration meanwhile.
C4_ReportedAttempts ==
    \A c \in Calls :
        ExhaustedCall(calls[c]) =>
            /\ calls[c].result.attempts = calls[c].dispatched
            /\ calls[c].result.cause = calls[c].last_exception

(***************************************************************************)
(* The transcript (Spec).                                                  *)
(***************************************************************************)
\* No operation is under way: the states a sequence of operations reaches.
Quiet == \A c \in Calls : ~Active(c)

Alternates(h) ==
    /\ Len(h) % 2 = 0
    /\ \A i \in 1 .. Len(h) : h[i].role = IF i % 2 = 1 THEN "user" ELSE "assistant"

\* The body yields a text that is a string with more than whitespace in it.
NonEmptyText(o) ==
    /\ o.kind = "ok"
    /\ extract_content(o.body).r = "value"
    /\ extract_content(o.body).ty = "str"
    /\ extract_content(o.body).v \notin BlankStrings

ChatEnded(r) == r.op = "chat" /\ r.pc \in Terminal

\* C5: after any sequence of chat, async_chat, clear_chat_history, set_model
\* and login operations issued one at a time, the transcript has even length
\* and alternates user, assistant from a user entry; it holds two entries for
\* each chat that returned a text since it was last empty.
C5_TranscriptPairs ==
    Quiet => (Alternates(chat_history) /\ Len(chat_history) = 2 * successes)

C5_Witness ==
    /\ Quiet
    /\ successes = 2
    /\ Len(chat_history) = 4
    /\ chat_history[3].role = "user"
    /\ chat_history[4].role = "assistant"

\* C6: a chat call that extracts a non-empty text returns that text and
\* leaves the transcript it found, followed by its user message and then the
\* assistant's reply with that text; a call never ends with its user message
\* alone appended.
C6_CommitOnText ==
    \A c \in Calls :
        LET r == calls[c] IN
        /\ (ChatEnded(r) /\ r.result.kind # "cancelled" /\ NonEmptyText(r.response)) =>
               /\ r.pc = "returned"
               /\ r.result.kind = "text"
               /\ r.result.text = extract_content(r.response.body).v
               /\ r.user_message.role = "user"
               /\ r.user_message.content # Invalid
               /\ chat_history =
                      r.before \o <<r.user_message,
                                    Msg("assistant", StrContent(r.result.text))>>
        /\ ChatEnded(r) => chat_history # Append(r.before, r.user_message)

C6_Witness ==
    \E c \in Calls :
        /\ calls[c].pc = "returned"
        /\ calls[c].mode = "sync"
        /\ calls[c].result.text = "hello"
        /\ calls[c].user_message.content = ListContent(<<TextPart("yo")>>)
        /\ Len(chat_history) = 4

\* C7: a chat call that ends otherwise (it raises ValueError, PuterAuthError
\* or PuterAPIError, it is cancelled, or it returns the marker for a missing,
\* empty or blank text) leaves the transcript as it found it.
C7_NoCommitWithoutText ==
    \A c \in Calls :
        LET r == calls[c] IN
        (ChatEnded(r) /\ (r.result.kind = "cancelled" \/ ~NonEmptyText(r.response))) =>
            /\ chat_history = r.before
            /\ r.result.kind \in {"ValueError", "PuterAuthError", "PuterAPIError", "marker",
                                  "cancelled"}

C7_Witness ==
    \E c \in Calls :
        /\ calls[c].result.kind = "marker"
        /\ calls[c].response.body = BodyBlank
        /\ Len(chat_history) = 2

(***************************************************************************)
(* Authentication (SpecAuth).                                              *)
(***************************************************************************)
\* C8: a chat call on a session without a token raises PuterAuthError,
\* whatever its arguments, sends no request and takes no slot of the throttler.
C8_NoTokenNotAuthenticated ==
    \A c \in Calls :
        LET r == calls[c] IN
        (ChatEnded(r) /\ r.token0 = "None") =>
            /\ r.result.kind = "PuterAuthError"
            /\ r.dispatched = 0
            /\ r.slots = 0

\* C9: a session built with a token passes the auth check at once, and a
\* session that holds a token when an operation starts still holds one when
\* the operation has ended, whatever the operation and however it ends.
C9_AuthenticatedTerminal ==
    \A c \in Calls :
        LET r == calls[c] IN
        /\ r.result.why = "notoken" => r.token0 = "None"
        /\ (r.pc \in Terminal /\ r.token0 # "None") => token # "None"

PassedWithin == {c \in Calls : calls[c].gate_age \in 0 .. throttler.period}

\* The requests sent within the last period units of time, by call and attempt.
SentWithin ==
    {p \in Calls \X (1 .. MaxRetries + 1) :
        /\ p[2] \in DOMAIN calls[p[1]].sent
        /\ calls[p[1]].sent[p[2]] <= throttler.period}

\* C11: whatever the interleaving of the concurrent async_chat and
\* async_login calls of one session, at most rate_limit of them have passed
\* the throttler within any trailing window of period, and none sends a
\* request before it has passed: the call after the rate_limit-th waits until
\* the first pass is more than period old.
C11_GateWindow ==
    /\ Cardinality(PassedWithin) <= throttler.rate_limit
    /\ \A c \in Calls :
           (calls[c].mode = "async" /\ calls[c].dispatched >= 1) => calls[c].gate_age >= 0

C11_Witness ==
    /\ throttler.rate_limit = 1
    /\ \A c \in GateCalls : calls[c].gate_age >= 0
    /\ \E c, d \in GateCalls : calls[c].gate_age = 0 /\ calls[d].gate_age > throttler.period

\* C12: on the async path no more than rate_limit requests are sent within
\* any trailing window of period, the retries of a failing call counted.
C12_DispatchWindow == Cardinality(SentWithin) <= throttler.rate_limit

\* C13: the throttler only delays: a call waiting for a slot comes to send
\* its request, and no call ends without a request because the limit was
\* reached.
C13_GateOnlyDelays ==
    /\ \A c \in Calls : (calls[c].pc = "acquire") ~> (calls[c].dispatched >= 1)
    /\ [](\A c \in Calls :
            (calls[c].mode = "async" /\ calls[c].pc \in Terminal /\ calls[c].dispatched = 0) =>
                \/ calls[c].result.kind \in {"ValueError", "cancelled"}
                \/ calls[c].result.why \in {"notoken", "nocreds"})

C13_Witness ==
    /\ throttler.rate_limit = 1
    /\ \A c \in GateCalls : calls[c].pc \in Terminal /\ calls[c].dispatched >= 1
    /\ \E c \in GateCalls : calls[c].gate_age = throttler.period

(***************************************************************************)
(* Concurrent callers (SpecThreads).                                       *)
(***************************************************************************)
\* C14: when several chat calls run concurrently on one session, the entries
\* of different calls do not interleave: once every call has ended, each user
\* entry of the transcript is followed at once by an assistant entry.
C14_SerializedCommit == Quiet => Alternates(chat_history)

(***************************************************************************)
(* The configuration (SpecRetry).                                          *)
(***************************************************************************)
\* C15: the overrides another session is constructed with stay private to
\* it: no call of this session finds a retry parameter it reads rewritten
\* since it began.
C15_PrivateOverrides == \A c \in Calls : calls[c].disturbed = {}

(***************************************************************************)
(* The response normalizer (SpecNorm).                                     *)
(***************************************************************************)
\* The string at place k of the body; "" when there is none.
PatternText(b, k) ==
    IF TypeAt(b, PatternPaths[k]) = "str" THEN Node(b, PatternPaths[k]).v ELSE ""

\* The places of the body that hold a string, and those whose string is more
\* than whitespace.
Matching(b) == {k \in 1 .. 7 : TypeAt(b, PatternPaths[k]) = "str"}

NonEmpty(b) == {k \in Matching(b) : PatternText(b, k) \notin BlankStrings}

Lowest(ks) == CHOOSE k \in ks : \A j \in ks : k <= j

\* A chat that got this answer and ran to its end.
Answered(r) == ChatEnded(r) /\ r.response.kind = "ok"

\* C16: the text returned is that of the first place, in the order 1 to 7,
\* whose string is more than whitespace; a place holding an empty or blank
\* string does not end the search, and the marker is returned only when no
\* place holds such a string.
C16_FirstNonEmpty ==
    \A c \in Calls :
        LET r == calls[c]
            b == r.response.body
        IN  (Answered(r) /\ b \notin {BodyNumber, BodyListOfStr}) =>
                IF NonEmpty(b) # {}
                THEN r.result.kind = "text" /\ r.result.text = PatternText(b, Lowest(NonEmpty(b)))
                ELSE r.result.kind = "marker"

\* C17: when every place of the body that holds a string holds one that is
\* more than whitespace, the text returned is that of the lowest place, in
\* chat and in async_chat.
C17_LowestPatternWins ==
    \A c \in Calls :
        LET r == calls[c]
            b == r.response.body
        IN  (Answered(r) /\ Matching(b) # {} /\ NonEmpty(b) = Matching(b)) =>
                /\ r.pc = "returned"
                /\ r.result.kind = "text"
                /\ r.result.text = PatternText(b, Lowest(Matching(b)))

C17_Witness ==
    \E c \in Calls :
        /\ calls[c].mode = "async"
        /\ calls[c].pc = "returned"
        /\ Matching(calls[c].response.body) = {1, 7}
        /\ calls[c].result.text = "p1"
        /\ PatternText(calls[c].response.body, 7) = "p7"

\* C18: a chat that got a JSON answer from which no non-empty text is
\* extracted returns the marker and does not raise.
C18_MissIsNotAnError ==
    \A c \in Calls :
        LET r == calls[c] IN
        (Answered(r) /\ ~NonEmptyText(r.response)) =>
            r.pc = "returned" /\ r.result.kind = "marker"

(***************************************************************************)
(* set_model and clear_chat_history (Spec).                                *)
(***************************************************************************)
\* C19: set_model(name) returns True and makes name the current model when
\* name is a key of the registry; otherwise it returns False and leaves the
\* current model as it was.  The token and the transcript stay as they were.
C19_SetModel ==
    \A c \in Calls :
        LET r == calls[c] IN
        (r.op = "set_model" /\ r.pc \in Terminal) =>
            /\ r.pc = "returned"
            /\ IF r.model \in {"claude-opus-4", "gpt-4"}
               THEN r.result.kind = "True" /\ current_model = r.model
               ELSE r.result.kind = "False" /\ current_model = r.model0
            /\ token = r.token0
            /\ chat_history = r.before

C19_Witness ==
    \E c \in Calls :
        /\ calls[c].op = "set_model"
        /\ calls[c].model = "mystery"
        /\ calls[c].result.kind = "False"
        /\ current_model = "gpt-4"
        /\ Len(chat_history) = 2

\* C20: clear_chat_history leaves the transcript empty, whatever it held,
\* and the token and the current model as they were; a chat sent while the
\* transcript has not been written since sends its own user message alone.
C20_ClearHistory ==
    \A c \in Calls :
        LET r == calls[c] IN
        /\ (r.op = "clear" /\ r.pc \in Terminal) =>
               /\ r.pc = "returned"
               /\ chat_history = <<>>
               /\ token = r.token0
               /\ current_model = r.model0
        /\ (r.op = "chat" /\ r.dispatched >= 1 /\ successes = 0 /\ r.pc # "returned") =>
               r.messages = <<r.user_message>>

C20_Witness ==
    \E c \in Calls :
        /\ calls[c].op = "clear"
        /\ Len(calls[c].before) = 4
        /\ chat_history = <<>>
        /\ current_model = "gpt-4"


(***************************************************************************)
(* The user message.                                                       *)
(***************************************************************************)
\* chat or async_chat was called and built its user message
Built(r) ==
    /\ r.op = "chat"
    /\ r.pc # "idle"
    /\ ~(r.pc = "raised" /\ r.result.kind = "ValueError")

\* chat or async_chat was called and left with ValueError
Refused(r) == r.op = "chat" /\ r.pc = "raised" /\ r.result.kind = "ValueError"

\* a prompt that yields a Text part
Present(prompt) == prompt \notin {"None", ""}

\* the same dict, whoever holds it
SameDict(p, q) == p.type = q.type /\ p.text = q.text /\ p.url = q.url

\* C21: for every prompt and images that _build_user_content accepts when no
\* content_parts are given, the content is neither the empty string nor the
\* empty list; it is a bare string exactly when one Text part (from the
\* prompt) and no Image part (one per entry of images) were produced, and is
\* then the prompt; otherwise it is a list with one part per produced part.
C21_NeverEmptyBareIffText ==
    \A c \in Calls :
        LET r == calls[c]
            content == r.user_message.content
            texts == IF Present(r.args.prompt) THEN 1 ELSE 0
        IN  (Built(r) /\ ~r.args.has_parts) =>
                /\ content # StrContent("")
                /\ content # ListContent(<<>>)
                /\ content.kind = "str" <=> (texts = 1 /\ Len(r.args.images) = 0)
                /\ content.kind = "str" => content.text = r.args.prompt
                /\ content.kind = "list" =>
                       Len(content.parts) = texts + Len(r.args.images)

\* C22: with content_parts given and not empty, the content is a list equal
\* to content_parts element by element, in order, a single text part
\* included, whatever prompt and images are (an image whose file is missing
\* is not looked at); with content_parts given and empty the call leaves
\* with ValueError; with no prompt, no image and no content_parts it leaves
\* with ValueError.
C22_PartsVerbatim ==
    \A c \in Calls :
        LET r == calls[c]
            content == r.user_message.content
            given == r.args.content_parts
        IN  (r.op = "chat" /\ r.pc # "idle") =>
                /\ (r.args.has_parts /\ given # <<>>) =>
                       /\ Built(r)
                       /\ content.kind = "list"
                       /\ Len(content.parts) = Len(given)
                       /\ \A i \in DOMAIN given : SameDict(content.parts[i], given[i])
                /\ (r.args.has_parts /\ given = <<>>) => Refused(r)
                /\ (~r.args.has_parts /\ ~Present(r.args.prompt) /\ r.args.images = <<>>) =>
                       Refused(r)

C22_Witness ==
    \E c \in Calls :
        /\ calls[c].pc = "returned"
        /\ calls[c].args.prompt = "hi"
        /\ calls[c].args.images = <<Img(0, "str", "missing.png", "None")>>
        /\ calls[c].args.has_parts
        /\ calls[c].args.content_parts = <<Given(TextPart("yo"))>>
        /\ calls[c].user_message.content = ListContent(<<TextPart("yo")>>)
        /\ calls[c].dispatched = 1

\* the place in the content of the part made from the i-th image
PartOf(r, i) ==
    r.user_message.content.parts[i + (IF Present(r.args.prompt) THEN 1 ELSE 0)]

\* C23: an image given as a string that is an HTTP(S) URL or a data: URI,
\* with or without a MIME type, becomes an image part whose url is that
\* string, character for character: it is not read as a file and not
\* encoded.
C23_UrlsVerbatim ==
    \A c \in Calls :
        LET r == calls[c]
        IN  \A i \in DOMAIN r.args.images :
                LET image == r.args.images[i]
                IN  (/\ r.op = "chat" /\ r.pc # "idle" /\ ~r.args.has_parts
                     /\ image.ty = "str" /\ image.tuple \in {0, 2}
                     /\ image.s \in DataURIs \cup HttpURLs
                     /\ \A j \in DOMAIN r.args.images : j # i =>
                            _prepare_image_content(r.args.images[j]) # Invalid) =>
                        /\ Built(r)
                        /\ r.user_message.content.kind = "list"
                        /\ PartOf(r, i) = ImagePart(image.s)

C23_Witness ==
    \E c \in Calls :
        /\ calls[c].pc = "returned"
        /\ ~calls[c].args.has_parts
        /\ calls[c].args.images = <<Img(2, "str", "https://x.test/a.png", "image/webp")>>
        /\ calls[c].user_message.content =
               ListContent(<<TextPart("hi"), ImagePart("https://x.test/a.png")>>)

\* an image that the claim C24 lists as refused
Unusable(image) ==
    \/ image.tuple \notin {0, 2}
    \/ image.ty = "str" /\ image.s \notin DataURIs \cup HttpURLs \cup FilePaths
    \/ image.ty = "other"
    \/ image.ty = "bytes" /\ image.s \in {"", "None", "NotBytes"}
    \/ image.ty = "file" /\ ReadOf(image.s) \in {"", "None", "NotBytes"}

\* C24: a tuple whose length is not 2, a path whose file does not exist, a
\* source of an unsupported type, and a byte source whose payload is empty,
\* None or not bytes each end the call with ValueError, and no part is made.
C24_UnusableImageRefused ==
    \A c \in Calls :
        LET r == calls[c]
        IN  (/\ r.op = "chat" /\ r.pc # "idle" /\ ~r.args.has_parts
             /\ \E i \in DOMAIN r.args.images : Unusable(r.args.images[i])) =>
                Refused(r)

\* C29: the parts of the built message and of the transcript are the
\* session's own copies, equal to the dicts the caller passed as content
\* parts or as pre-built images; they stay so after the caller has changed
\* its dicts.
C29_CopiesNotShared ==
    \A c \in Calls :
        LET r == calls[c]
            content == r.user_message.content
        IN  /\ \A k \in DOMAIN chat_history : \A i \in DOMAIN chat_history[k].content.parts :
                   /\ chat_history[k].content.parts[i].ref = "own"
                   /\ chat_history[k].content.parts[i].text # "changed"
            /\ Built(r) =>
                   /\ \A i \in DOMAIN content.parts : content.parts[i].ref = "own"
                   /\ r.args.has_parts =>
                          /\ Len(content.parts) = Len(r.args.content_parts)
                          /\ \A i \in DOMAIN content.parts :
                                 SameDict(content.parts[i], r.args.content_parts[i])
                   /\ (~r.args.has_parts /\ content.kind = "list") =>
                          \A i \in DOMAIN r.args.images :
                              r.args.images[i].ty = "dict" =>
                                  SameDict(PartOf(r, i), r.args.images[i].part)
                   /\ r.pc = "returned" =>
                          /\ Len(chat_history) >= 2
                          /\ chat_history[Len(chat_history) - 1] = Msg("user", content)

C29_Witness ==
    \E c \in Calls :
        /\ calls[c].pc = "returned"
        /\ calls[c].mutated
        /\ calls[c].args.content_parts =
               <<Given(ImagePart("https://x.test/a.png")), Given(TextPart("yo"))>>
        /\ chat_history[1] =
               Msg("user", ListContent(<<ImagePart("https://x.test/a.png"), TextPart("yo")>>))


\* C25: a chat or async_chat whose arguments the content builder refuses
\* ends at once with ValueError itself, not with PuterAPIError or any other
\* wrapper: no request was sent, nothing was retried, no slot of the
\* throttler was waited for or taken, and the transcript is as it was.
C25_InvalidInputImmediate ==
    \A c \in Calls :
        LET r == calls[c]
        IN  (/\ r.op = "chat" /\ r.pc # "idle"
             /\ _build_user_content(r.args.prompt, r.args.images, r.args.has_parts,
                                    r.args.content_parts) = Invalid) =>
                /\ r.pc = "raised"
                /\ r.result.kind = "ValueError"
                /\ r.dispatched = 0 /\ r.failures = 0 /\ r.sleeps = <<>>
                /\ r.slots = 0 /\ r.gate_age = -1
                /\ Quiet => chat_history = r.before

C25_Witness ==
    \E c \in Calls :
        /\ calls[c].op = "chat" /\ calls[c].mode = "async"
        /\ calls[c].args.prompt = "hi"
        /\ calls[c].args.images = <<Img(0, "str", "missing.png", "None")>>
        /\ ~calls[c].args.has_parts
        /\ calls[c].pc = "raised"
        /\ calls[c].result.kind = "ValueError"
        /\ throttler.task_logs = <<>>

\* C26: a login or async_login of a session without username or password
\* ends with PuterAuthError: no request was sent, no slot of the throttler
\* was taken, and the token is the one the session had.
C26_LoginNeedsCredentials ==
    \A c \in Calls :
        LET r == calls[c]
        IN  (r.op = "login" /\ r.pc # "idle" /\ ~creds) =>
                /\ r.pc = "raised"
                /\ r.result.kind = "PuterAuthError"
                /\ r.result.why = "nocreds"
                /\ r.dispatched = 0 /\ r.slots = 0 /\ r.gate_age = -1
                /\ token = r.token0

C26_Witness ==
    \E c \in Calls :
        /\ calls[c].op = "login" /\ calls[c].mode = "async"
        /\ ~creds
        /\ calls[c].pc = "raised"
        /\ calls[c].result.kind = "PuterAuthError"
        /\ token = "t0"

\* C27: a chat that built its message uses the model named in the call, or
\* the session's model when none is named, under that very name; its driver
\* is the registry's for a registered name and "openai-completion" for any
\* other, and an unregistered name never ends the call before a request.
C27_UnknownModelDefaultDriver ==
    \A c \in Calls :
        LET r == calls[c]
            named == IF r.args.model = "None" THEN r.model0 ELSE r.args.model
        IN  Built(r) =>
                /\ r.model = named
                /\ named \in DOMAIN available_models => r.driver = available_models[named]
                /\ named \notin DOMAIN available_models => r.driver = "openai-completion"
                /\ (r.pc = "raised" /\ r.token0 \notin {"None", ""}) => r.dispatched >= 1

C27_Witness ==
    \E c \in Calls :
        /\ calls[c].op = "chat"
        /\ calls[c].args.model = "mystery"
        /\ calls[c].model = "mystery"
        /\ calls[c].driver = "openai-completion"
        /\ calls[c].pc = "returned"
        /\ calls[c].result.text = "hello"

\* the call can take its next step by itself: it is not waiting for a slot
\* that is taken, for the end of its own sleep, or for room in the bound
Ready(r) ==
    \/ r.pc \in {"inflight", "got_response"}
    \/ r.pc = "acquire" /\ SlotFree
    \/ r.pc = "idle" /\ Len(chat_history) < 2 * Cardinality(TaskCalls)

\* C28: while an async_chat is in its backoff sleep, every other async_chat
\* of the session that is ready for its next step (passing the gate, the end
\* of its request, its commit) can take it.
C28_SleepDoesNotBlock ==
    \A c \in TaskCalls, d \in TaskCalls :
        (/\ c # d
         /\ calls[c].mode = "async" /\ calls[c].pc = "sleeping" /\ calls[c].wake_in > 0
         /\ Ready(calls[d])) =>
            ENABLED TaskStep(d)

\* one unit into the two units of the first call's sleep the second call has
\* just passed the gate, sent its request and returned
C28_Witness ==
    \E c \in TaskCalls, d \in TaskCalls :
        /\ c # d
        /\ calls[c].pc = "sleeping" /\ calls[c].sleeps = <<2>> /\ calls[c].wake_in = 1
        /\ calls[d].pc = "returned"
        /\ calls[d].gate_age = 0 /\ calls[d].sent = <<0>>

\* C30: a chat or login of the sync path never waits for the throttler and
\* never takes a slot: the throttler's log stays empty while only sync calls
\* are made, however many requests they send within one period.
C30_SyncNotThrottled ==
    /\ \A c \in Calls :
           calls[c].mode = "sync" =>
               /\ calls[c].pc # "acquire"
               /\ calls[c].slots = 0
               /\ calls[c].gate_age = -1
    /\ (\A c \in Calls : calls[c].mode # "async") => throttler.task_logs = <<>>

C30_Witness ==
    /\ calls[1].op = "login" /\ calls[1].mode = "sync" /\ calls[1].sent = <<0, 0>>
    /\ calls[2].op = "chat" /\ calls[2].mode = "sync" /\ calls[2].sent = <<0>>
    /\ Cardinality(SentWithin) = 3
    /\ throttler.rate_limit = 1


(***************************************************************************)
(* Concurrent async_chat calls and the transcript.                         *)
(***************************************************************************)
\* the call has appended its pair to the transcript
Committed(r) == r.op = "chat" /\ r.pc = "returned" /\ r.result.kind = "text"

\* the pair a call commits
Pair(r) == <<DeepCopyMsg(r.user_message), Msg("assistant", StrContent(r.result.text))>>

\* the two entries of the transcript at the place where the call committed
PairAt(r) ==
    IF Len(chat_history) >= Len(r.prefix) + 2
    THEN SubSeq(chat_history, Len(r.prefix) + 1, Len(r.prefix) + 2)
    ELSE <<>>

\* C31: whatever the interleaving of the async_chat tasks of one session, the
\* transcript is at every moment a sequence of (user, assistant) pairs, one
\* for each call that has committed, and the two entries of a pair are those
\* of one call, next to each other.
C31_AsyncPairsAdjacent ==
    /\ Alternates(chat_history)
    /\ Len(chat_history) = 2 * Cardinality({c \in Calls : Committed(calls[c])})
    /\ \A c \in Calls : Committed(calls[c]) => PairAt(calls[c]) = Pair(calls[c])

\* the second task commits while the first, begun on the empty transcript,
\* is in its backoff sleep; the first commits after it
C31_Witness ==
    /\ Committed(calls[1]) /\ Committed(calls[2])
    /\ calls[1].before = <<>> /\ calls[2].before = <<>>
    /\ calls[1].sleeps # <<>>
    /\ calls[1].prefix = Pair(calls[2])
    /\ chat_history = Pair(calls[2]) \o Pair(calls[1])

\* C32: the message history a committed call sent in its request is the
\* transcript that precedes its pair, followed by its user message.
C32_DraftIsPrefix ==
    \A c \in Calls :
        Committed(calls[c]) =>
            calls[c].messages = Append(calls[c].prefix, calls[c].user_message)

\* the calls whose pair has not been cleared away
Live == {c \in Calls : Committed(calls[c]) /\ "stale" \notin calls[c].disturbed}

\* C35: a clear_chat_history that runs while an async_chat is under way does
\* not cancel it, and when the call commits its pair goes onto the transcript
\* as it then is: the transcript holds the pairs committed since the clear,
\* each at the place where it was committed, and nothing else.
C35_ClearThenCommit ==
    /\ \A c \in Calls : "clear" \in calls[c].disturbed => calls[c].pc # "cancelled"
    /\ (\E c \in Calls : calls[c].op = "clear") =>
           /\ Len(chat_history) = 2 * Cardinality(Live)
           /\ \A c \in Live : PairAt(calls[c]) = Pair(calls[c])
           /\ \A d \in Calls :
                  (Committed(calls[d]) /\ d \notin Live) =>
                      \A i \in DOMAIN chat_history : chat_history[i] # Pair(calls[d])[1]

\* the first call commits, the transcript is cleared while the second is
\* under way, and the second then commits onto the empty transcript
C35_Witness ==
    /\ calls[3].op = "clear" /\ calls[3].before = Pair(calls[1])
    /\ Committed(calls[1]) /\ "stale" \in calls[1].disturbed
    /\ Committed(calls[2]) /\ "clear" \in calls[2].disturbed
    /\ calls[2].messages = Append(Pair(calls[1]), calls[2].user_message)
    /\ chat_history = Pair(calls[2])


(***************************************************************************)
(* chat against async_chat (SpecTwin).                                     *)
(***************************************************************************)
\* the outcomes one call was served are the first of those the other was
IsPrefix(p, q) == Len(p) <= Len(q) /\ SubSeq(q, 1, Len(p)) = p

SameStream(p, q) == IsPrefix(p, q) \/ IsPrefix(q, p)

\* what a call that has ended leaves: what it returned or raised, and the
\* pair it committed, if any
Left(r) ==
    [pc |-> r.pc, kind |-> r.result.kind, text |-> r.result.text,
     pair |-> IF Committed(r) THEN Pair(r) ELSE <<>>]

\* C33: a chat and an async_chat begun with the same token, model and
\* transcript and the same arguments, and served the same outcomes attempt
\* by attempt (an answer with a 2xx status and a body that is not JSON among
\* them), make the same number of attempts, sleep the same delays, return
\* the same string or raise the same kind of error, and commit the same pair.
C33_SyncAsyncSame ==
    LET s == calls[TwinSync]
        a == calls[TwinAsync]
    IN  (/\ s.op = "chat" /\ s.mode = "sync" /\ s.pc \in Terminal
         /\ a.op = "chat" /\ a.mode = "async" /\ a.pc \in Terminal
         /\ s.before = a.before /\ s.token0 = a.token0 /\ s.model0 = a.model0
         /\ s.args = a.args
         /\ SameStream(s.seen, a.seen)) =>
            /\ s.dispatched = a.dispatched
            /\ s.sleeps = a.sleeps
            /\ Left(s) = Left(a)


(***************************************************************************)
(* Refused logins (SpecAuth).                                              *)
(***************************************************************************)
\* the login was answered with a 2xx status and a body that does not proceed
Rejected(r) ==
    /\ r.op = "login"
    /\ r.response.kind = "ok"
    /\ TypeAt(r.response.body, <<>>) = "dict"
    /\ ~Truthy(r.response.body, <<"proceed">>)

\* C34: a login or async_login answered with a successful status and
\* proceed = false ends there with PuterAuthError: no request and no backoff
\* sleep follows the refusal, so a login refused at its first attempt has
\* sent exactly one request and slept not at all.  Requests are repeated
\* only after an attempt that failed (never after an answer with a
\* successful status that was parsed), and never more than max_retries + 1
\* of them are sent.
C34_RejectionIsFinal ==
    \A c \in Calls :
        LET r == calls[c]
        IN  /\ (Rejected(r) /\ r.pc \in {"returned", "raised"}) =>
                   /\ r.pc = "raised"
                   /\ r.result.kind = "PuterAuthError"
                   /\ r.result.why = "rejected"
                   /\ r.dispatched = r.failures + 1
                   /\ Len(r.sleeps) = r.failures
                   /\ r.failures = 0 => (r.dispatched = 1 /\ r.sleeps = <<>>)
            /\ r.op = "login" =>
                   /\ r.dispatched <= r.failures + 1
                   /\ r.dispatched <= r.rangeMax + 1
                   /\ r.last_exception \in {"none", "badjson"} \cup FailureKinds

C34_Witness ==
    \E c \in Calls :
        /\ Rejected(calls[c])
        /\ calls[c].pc = "raised"
        /\ calls[c].rangeMax = 1
        /\ calls[c].dispatched = 1
        /\ calls[c].sleeps = <<>>
        /\ calls[c].result.kind = "PuterAuthError"


(***************************************************************************)
(* What chat leaves alone (Spec).                                          *)
(***************************************************************************)
\* C36: from its start to its end, whatever the end is, a chat or async_chat
\* leaves the session's model and token as it found them (the registry is
\* never written); the model named in the call is used for that call, and a
\* call that names none uses the session's model.
C36_ChatKeepsModelAndToken ==
    \A c \in Calls :
        LET r == calls[c]
        IN  (r.op = "chat" /\ r.pc # "idle") =>
                /\ current_model = r.model0
                /\ token = r.token0
                /\ (Built(r) /\ r.args.model = "None") => r.model = current_model
                /\ (Built(r) /\ r.args.model # "None") => r.model = r.args.model

\* a second chat, after set_model("gpt-4") and a first exchange, names the
\* model "mystery" and ends; the session's model is still "gpt-4"
C36_Witness ==
    \E c \in Calls :
        /\ calls[c].op = "chat"
        /\ calls[c].pc = "returned"
        /\ Len(calls[c].before) = 2
        /\ calls[c].args.model = "mystery"
        /\ calls[c].model = "mystery"
        /\ current_model = "gpt-4"
        /\ token = "t1"


(***************************************************************************)
(* List-valued content (SpecList).                                         *)
(***************************************************************************)
\* the place of the list that extract_content finds first
ListPlace(b) ==
    IF TypeAt(b, PatternPaths[1]) = "list" THEN PatternPaths[1] ELSE PatternPaths[2]

\* the type and the text of the i-th element of the list at p ("absent": no
\* such field)
FieldOf(b, p, i, key) ==
    IF Has(b, p \o <<Idx[i], key>>) THEN Node(b, p \o <<Idx[i], key>>).v ELSE "absent"

\* what the elements i .. n are to contribute, in order
RECURSIVE TextOfItems(_, _, _, _)
TextOfItems(b, p, i, n) ==
    IF i > n THEN ""
    ELSE (IF FieldOf(b, p, i, "type") = "text" /\ FieldOf(b, p, i, "text") # "absent"
          THEN FieldOf(b, p, i, "text") ELSE "")
         \o TextOfItems(b, p, i + 1, n)

\* C38: when the content found is a list of objects, the text extracted is
\* the texts of the elements whose type is "text", joined in the order of
\* the list; an element of another type or of no type adds nothing, and an
\* element of type text without a text adds the empty string.  The call
\* returns that text, or the marker when it is empty.
C38_ListContentJoined ==
    \A c \in Calls :
        LET r == calls[c]
            b == r.response.body
            p == ListPlace(b)
            joined == TextOfItems(b, p, 1, ListLen(b, p))
        IN  (Answered(r) /\ TypeAt(b, p) = "list") =>
                /\ extract_content(b) = XStr(joined)
                /\ r.pc = "returned"
                /\ IF joined = "" THEN r.result.kind = "marker"
                   ELSE r.result.kind = "text" /\ r.result.text = joined

\* [text "a", image_url with a text "z", text "b"] at result.content yields "ab"
C38_Witness ==
    \E c \in Calls :
        /\ calls[c].mode = "async"
        /\ calls[c].pc = "returned"
        /\ calls[c].response.body =
               ListBody(PatternPaths[2],
                        <<[ty |-> "text", tx |-> "a"], [ty |-> "image_url", tx |-> "z"],
                          [ty |-> "text", tx |-> "b"]>>)
        /\ calls[c].result.text = "ab"


(***************************************************************************)
(* The MIME type of an encoded image (SpecContent).                        *)
(***************************************************************************)
\* the image is a source of bytes: a path, a byte buffer or a handle
Encoded(image) ==
    \/ image.ty = "str" /\ image.s \in FilePaths
    \/ image.ty \in {"bytes", "file"}

\* the bytes of such a source
BytesOf(image) ==
    CASE image.ty = "str" -> FileBytes(image.s)
      [] image.ty = "bytes" -> image.s
      [] OTHER -> ReadOf(image.s)

\* the type the source itself suggests ("None": it suggests none)
OwnMime(image) ==
    CASE image.ty = "str" -> GuessType(image.s)
      [] image.ty = "file" -> MimeOf(image.s)
      [] OTHER -> "None"

\* the MIME type by the precedence explicit, then the source's own, then
\* image/png
MimeByPrecedence(image) ==
    IF image.tuple = 2 /\ image.mime # "None" THEN image.mime
    ELSE IF OwnMime(image) # "None" THEN OwnMime(image)
    ELSE "image/png"

\* C39: the part built from a path, a byte buffer or a handle has the url
\* data:<mime>;base64,<base64 of the bytes>, where <mime> is the explicit
\* MIME type when one was given, else the type guessed from the extension
\* of a path or the mimetype attribute of a handle, else image/png.
C39_MimePrecedence ==
    \A c \in Calls :
        LET r == calls[c]
        IN  \A i \in DOMAIN r.args.images :
                LET image == r.args.images[i]
                IN  (/\ Built(r) /\ ~r.args.has_parts
                     /\ r.user_message.content.kind = "list"
                     /\ Encoded(image)) =>
                        PartOf(r, i) =
                            ImagePart("data:" \o MimeByPrecedence(image) \o ";base64,"
                                      \o B64(BytesOf(image)))

\* b"abc" with the explicit MIME type image/jpeg
C39_Witness ==
    \E c \in Calls :
        /\ calls[c].pc = "returned"
        /\ calls[c].args.prompt = "None"
        /\ calls[c].args.images = <<Img(2, "bytes", "abc", "image/jpeg")>>
        /\ calls[c].user_message.content =
               ListContent(<<ImagePart("data:image/jpeg;base64,YWJj")>>)


(***************************************************************************)
(* Termination (SpecLive).                                                 *)
(***************************************************************************)
\* the errors a call may end with
TypedErrors == {"ValueError", "PuterAuthError", "PuterAPIError"}

\* C37: every chat, async_chat, login and async_login that has begun comes
\* to its end: it returns a value or raises ValueError, PuterAuthError or
\* PuterAPIError.  At no point has it sent more than max_retries + 1
\* requests or slept more than max_retries times.
C37_CallsTerminate ==
    /\ \A c \in LiveCalls :
           (calls[c].pc \notin {"idle", "returned", "raised"}) ~>
               (calls[c].pc \in {"returned", "raised"})
    /\ [](\A c \in LiveCalls :
            /\ calls[c].dispatched <= config.max_retries + 1
            /\ Len(calls[c].sleeps) <= config.max_retries
            /\ calls[c].pc = "raised" => calls[c].result.kind \in TypedErrors
            /\ calls[c].pc = "returned" =>
                   calls[c].result.kind \in {"text", "marker", "True"})

\* an async_chat that has waited for its slot and failed at every attempt
C37_Witness ==
    \E c \in LiveCalls :
        /\ calls[c].op = "chat" /\ calls[c].mode = "async"
        /\ calls[c].pc = "raised"
        /\ calls[c].result.why = "exhausted"
        /\ config.max_retries = MaxRetries
        /\ calls[c].dispatched = MaxRetries + 1
        /\ Len(calls[c].sleeps) = MaxRetries
        /\ Len(throttler.task_logs) = 1
        /\ token = "t1"

====
